---------------------------- MODULE Spec2Model ----------------------------
(***************************************************************************)
(* AlpaTrade-Bot: the strategy engine (registry, scan, dispatch), the risk *)
(* manager and the confirm/reject routes, as state machines.               *)
(*                                                                         *)
(* Conventions.  A Python dict is an association list (a sequence of       *)
(* [key, value] records in insertion order).  An optional float (a pandas  *)
(* cell that may be NaN) is <<>> for NaN and <<v>> for the number v.       *)
(* Prices and money are integers; a stop-loss or take-profit level is kept *)
(* multiplied by 100 so that price * (1 - pct/100) stays an integer.       *)
(* Every `await` on the brokerage client is a point where the coroutine    *)
(* is suspended and another coroutine of the event loop may run; code      *)
(* between two awaits runs as one step.                                    *)
(***************************************************************************)
EXTENDS Integers, Sequences, FiniteSets, TLC

VARIABLES
    strategies,      \* StrategyEngine.strategies: dict name -> evaluator (its config)
    risk_managers,   \* StrategyEngine.risk_managers: dict name -> risk manager (its config)
    api_raised,      \* whether the latest add_strategy/remove_strategy call raised
    api_log,         \* history: the add_strategy/remove_strategy calls made, in order
    scan_pc,         \* analyze_symbols: "idle" | "fetch" | "done" | "aborted"
    scan_symbols,    \* its symbols argument
    scan_timeframes, \* its timeframes argument
    scan_idx,        \* index of the next (symbol, timeframe) pair
    signals,         \* its local list `signals`
    scan_api0,       \* history: length of api_log when the scan was started
    scan_log,        \* history: per visited pair, the fetch outcome and registry seen
    account,         \* brokerage account: [equity, buying_power]
    positions,       \* brokerage positions, by the set of symbols held
    orders,          \* history: the orders the brokerage accepted, in order
    dispatch,        \* per execute_signal coroutine: its position and locals
    pending_signals, \* the scheduler's list of signals awaiting confirmation
    requests,        \* history: the confirm/reject requests served, in order
    gate,            \* one filter_signals_by_sentiment call: its arguments and result
    calc             \* one calculate_all_indicators / moving_average call

regVars  == <<strategies, risk_managers, api_raised, api_log>>
scanVars == <<scan_pc, scan_symbols, scan_timeframes, scan_idx, signals, scan_api0,
             scan_log>>
dispVars == <<account, positions, orders, dispatch>>
confVars == <<pending_signals, requests>>
libVars  == <<gate, calc>>
vars     == <<regVars, scanVars, dispVars, confVars, libVars>>

-----------------------------------------------------------------------------
(* Bounds of the model *)
MaxSymbols  == 1    \* longest symbols list handed to a scan
MaxApiCalls == 3    \* add_strategy/remove_strategy calls in one behaviour
MaxScanApiCalls == 1 \* add_strategy/remove_strategy calls while a scan runs
MaxRequests == 3     \* confirm/reject requests in one behaviour
MaxGateSignals == 3  \* longest signal list handed to the sentiment filter

-----------------------------------------------------------------------------
(* Python dict as an association list *)
DictKeys(d)   == {d[i].key : i \in 1..Len(d)}
DictHas(d, k) == k \in DictKeys(d)
DictGet(d, k) == d[CHOOSE i \in 1..Len(d) : d[i].key = k].value
DictSet(d, k, v) ==
    IF DictHas(d, k)
    THEN [i \in 1..Len(d) |-> IF d[i].key = k THEN [key |-> k, value |-> v] ELSE d[i]]
    ELSE Append(d, [key |-> k, value |-> v])
DictDel(d, k) == SelectSeq(d, LAMBDA e : e.key # k)

(* optional floats *)
NaN        == <<>>
Num(v)     == <<v>>
\* the comparison as it would be with a missing value read as 0
Lt_UndefinedIsZero(a, b) ==
    (IF a = NaN THEN 0 ELSE a[1]) < (IF b = NaN THEN 0 ELSE b[1])
Lt(a, b)   == a # NaN /\ b # NaN /\ a[1] < b[1]
Gt(a, b)   == a # NaN /\ b # NaN /\ a[1] > b[1]


-----------------------------------------------------------------------------
(* Inputs: strategy names, configurations, symbols, timeframes, bar data *)
Names      == {"alpha", "beta"}
AllSymbols == <<"AAPL", "MSFT", "TSLA">>
Timeframes == <<"1D", "1H">>

\* A StrategyConfig.  The thresholds are those of the spec's scenarios; the
\* periods are the defaults of calculate_all_indicators.
Config(name, active, maxpos) ==
    [name |-> name, is_active |-> active,
     stoch_k_period |-> 14, cci_period |-> 20,
     stoch_oversold |-> 20, stoch_overbought |-> 80,
     cci_oversold |-> -100, cci_overbought |-> 100,
     stop_loss_percent |-> 2,
     capital_allocation_percent |-> 10,
     max_positions |-> maxpos]

NoConfig == Config("", FALSE, 0)

\* the configurations create_strategy is called with
ScanConfigs == {Config(n, a, 2) : n \in Names, a \in BOOLEAN}

\* A fetched DataFrame, by what analyze_symbol reads of it: its length and the
\* last rows' close, volume and indicator columns (after calculate_all_indicators).
\* A cell is NaN or a number; has_volume says whether the frame has a volume
\* column at all.
Bars(n, k, d, cci, rsi, close, vol, pvol) ==
    [bars |-> n, stoch_k |-> k, stoch_d |-> d, cci |-> cci, rsi |-> rsi,
     close |-> close, has_volume |-> TRUE, volume |-> vol, prev_volume |-> pvol]

EmptyFrame == Bars(0, NaN, NaN, NaN, NaN, 0, NaN, NaN)
DataSamples ==
    { EmptyFrame,
      Bars(40, Num(15), Num(10), Num(-110), Num(40), 50, Num(900), Num(1000)),   \* oversold
      Bars(25, Num(15), Num(10), Num(-110), Num(40), 50, Num(900), Num(1000)) }  \* too short

\* what `await get_historical_data(...)` can do: raise, or return a frame
FetchOutcomes ==
    {[raised |-> TRUE, data |-> EmptyFrame]} \cup
    {[raised |-> FALSE, data |-> d] : d \in DataSamples}

\* max as it would be if the smaller period were taken
Max_Smaller(a, b) == IF a >= b THEN b ELSE a

Max(a, b) == IF a >= b THEN a ELSE b
Last(q)   == q[Len(q)]

-----------------------------------------------------------------------------
(* StochasticCCIStrategy *)

VolumeOk(data) ==
    IF data.has_volume
    THEN /\ data.volume # NaN
         /\ data.prev_volume # NaN
         /\ data.volume[1] * 10 > data.prev_volume[1] * 8
    ELSE TRUE

\* _check_buy_conditions as it would be without the RSI floor
CheckBuyConditions_NoRsiFloor(cfg, data) ==
    LET stoch_oversold == /\ Lt(data.stoch_k, Num(cfg.stoch_oversold))
                          /\ Lt(data.stoch_d, Num(cfg.stoch_oversold))
                          /\ Gt(data.stoch_k, data.stoch_d)
        cci_oversold   == Lt(data.cci, Num(cfg.cci_oversold))
    IN  IF stoch_oversold /\ cci_oversold /\ VolumeOk(data)
        THEN <<[confidence |-> 70,
                stop_loss   |-> data.close * (100 - cfg.stop_loss_percent),
                take_profit |-> data.close * (100 + cfg.stop_loss_percent * 2)]>>
        ELSE <<>>

\* _check_buy_conditions as it would be if %K only had to be above an
\* oversold %D
CheckBuyConditions_CrossOnly(cfg, data) ==
    LET stoch_oversold == /\ Lt(data.stoch_d, Num(cfg.stoch_oversold))
                          /\ Gt(data.stoch_k, data.stoch_d)
        cci_oversold   == Lt(data.cci, Num(cfg.cci_oversold))
        rsi_ok         == Gt(data.rsi, Num(25))
    IN  IF stoch_oversold /\ cci_oversold /\ rsi_ok /\ VolumeOk(data)
        THEN <<[confidence |-> 70,
                stop_loss   |-> data.close * (100 - cfg.stop_loss_percent),
                take_profit |-> data.close * (100 + cfg.stop_loss_percent * 2)]>>
        ELSE <<>>

\* _check_buy_conditions: <<>> for None, else <<the dict it returns>>
CheckBuyConditions(cfg, data) ==
    LET stoch_oversold == /\ Lt(data.stoch_k, Num(cfg.stoch_oversold))
                          /\ Lt(data.stoch_d, Num(cfg.stoch_oversold))
                          /\ Gt(data.stoch_k, data.stoch_d)
        cci_oversold   == Lt(data.cci, Num(cfg.cci_oversold))
        rsi_ok         == Gt(data.rsi, Num(25))
    IN  IF stoch_oversold /\ cci_oversold /\ rsi_ok /\ VolumeOk(data)
        THEN <<[confidence |-> 70,
                stop_loss   |-> data.close * (100 - cfg.stop_loss_percent),
                take_profit |-> data.close * (100 + cfg.stop_loss_percent * 2)]>>
        ELSE <<>>

\* _check_sell_conditions as it would be without the %K < %D test
CheckSellConditions_NoCrossTest(cfg, data) ==
    LET stoch_overbought == /\ Gt(data.stoch_k, Num(cfg.stoch_overbought))
                            /\ Gt(data.stoch_d, Num(cfg.stoch_overbought))
        cci_overbought   == Gt(data.cci, Num(cfg.cci_overbought))
        rsi_ok           == Lt(data.rsi, Num(75))
    IN  IF stoch_overbought /\ cci_overbought /\ rsi_ok /\ VolumeOk(data)
        THEN <<[confidence |-> 70,
                stop_loss   |-> data.close * (100 + cfg.stop_loss_percent),
                take_profit |-> data.close * (100 - cfg.stop_loss_percent * 2)]>>
        ELSE <<>>

\* _check_sell_conditions as it would be with the stop and target of a BUY
CheckSellConditions_BuySideStops(cfg, data) ==
    LET stoch_overbought == /\ Gt(data.stoch_k, Num(cfg.stoch_overbought))
                            /\ Gt(data.stoch_d, Num(cfg.stoch_overbought))
                            /\ Lt(data.stoch_k, data.stoch_d)
        cci_overbought   == Gt(data.cci, Num(cfg.cci_overbought))
        rsi_ok           == Lt(data.rsi, Num(75))
    IN  IF stoch_overbought /\ cci_overbought /\ rsi_ok /\ VolumeOk(data)
        THEN <<[confidence |-> 70,
                stop_loss   |-> data.close * (100 - cfg.stop_loss_percent),
                take_profit |-> data.close * (100 + cfg.stop_loss_percent * 2)]>>
        ELSE <<>>

\* _check_sell_conditions
CheckSellConditions(cfg, data) ==
    LET stoch_overbought == /\ Gt(data.stoch_k, Num(cfg.stoch_overbought))
                            /\ Gt(data.stoch_d, Num(cfg.stoch_overbought))
                            /\ Lt(data.stoch_k, data.stoch_d)
        cci_overbought   == Gt(data.cci, Num(cfg.cci_overbought))
        rsi_ok           == Lt(data.rsi, Num(75))
    IN  IF stoch_overbought /\ cci_overbought /\ rsi_ok /\ VolumeOk(data)
        THEN <<[confidence |-> 70,
                stop_loss   |-> data.close * (100 + cfg.stop_loss_percent),
                take_profit |-> data.close * (100 - cfg.stop_loss_percent * 2)]>>
        ELSE <<>>

\* TradingSignal(...)
TradingSignal(symbol, side, lv, price, timeframe, strategy_name) ==
    [symbol |-> symbol, side |-> side, confidence |-> lv.confidence,
     price |-> price, stop_loss |-> lv.stop_loss, take_profit |-> lv.take_profit,
     timeframe |-> timeframe, strategy_name |-> strategy_name]

\* analyze_symbol: <<>> for None, else <<signal>>
AnalyzeSymbol(cfg, symbol, data, timeframe) ==
    IF data.bars < Max(cfg.stoch_k_period, cfg.cci_period) + 10
    THEN <<>>
    ELSE LET buy  == CheckBuyConditions(cfg, data)
             sell == CheckSellConditions(cfg, data)
         IN  IF buy # <<>>
             THEN <<TradingSignal(symbol, "BUY", buy[1], data.close, timeframe, cfg.name)>>
             ELSE IF sell # <<>>
             THEN <<TradingSignal(symbol, "SELL", sell[1], data.close, timeframe, cfg.name)>>
             ELSE <<>>

-----------------------------------------------------------------------------
(* StrategyEngine: the registry *)

\* add_strategy as it would be if an existing name were not overwritten in
\* the risk-manager dict
AddStrategyOp_StaleRiskManager(reg, config) ==
    [strategies    |-> DictSet(reg.strategies, config.name, config),
     risk_managers |-> IF DictHas(reg.risk_managers, config.name)
                       THEN reg.risk_managers
                       ELSE DictSet(reg.risk_managers, config.name, config),
     raised        |-> FALSE]

\* add_strategy, on reg = [strategies, risk_managers]
AddStrategyOp(reg, config) ==
    [strategies    |-> DictSet(reg.strategies, config.name, config),
     risk_managers |-> DictSet(reg.risk_managers, config.name, config),
     raised        |-> FALSE]

\* remove_strategy as it would be without its membership tests: `del` of an
\* absent key raises KeyError
RemoveStrategyOp_Unguarded(reg, strategy_name) ==
    IF DictHas(reg.strategies, strategy_name) /\ DictHas(reg.risk_managers, strategy_name)
    THEN [strategies    |-> DictDel(reg.strategies, strategy_name),
          risk_managers |-> DictDel(reg.risk_managers, strategy_name),
          raised        |-> FALSE]
    ELSE [strategies    |-> reg.strategies,
          risk_managers |-> reg.risk_managers,
          raised        |-> TRUE]

\* remove_strategy
RemoveStrategyOp(reg, strategy_name) ==
    [strategies    |-> IF DictHas(reg.strategies, strategy_name)
                       THEN DictDel(reg.strategies, strategy_name)
                       ELSE reg.strategies,
     risk_managers |-> IF DictHas(reg.risk_managers, strategy_name)
                       THEN DictDel(reg.risk_managers, strategy_name)
                       ELSE reg.risk_managers,
     raised        |-> FALSE]

Registry == [strategies |-> strategies, risk_managers |-> risk_managers]

AddStrategy(config) ==
    /\ LET r == AddStrategyOp(Registry, config)
       IN  /\ strategies' = r.strategies
           /\ risk_managers' = r.risk_managers
           /\ api_raised' = r.raised
    /\ api_log' = Append(api_log, [op |-> "add", name |-> config.name, config |-> config])

RemoveStrategy(strategy_name) ==
    /\ LET r == RemoveStrategyOp(Registry, strategy_name)
       IN  /\ strategies' = r.strategies
           /\ risk_managers' = r.risk_managers
           /\ api_raised' = r.raised
    /\ api_log' = Append(api_log, [op |-> "remove", name |-> strategy_name,
                                   config |-> NoConfig])

-----------------------------------------------------------------------------
(* StrategyEngine.analyze_symbols *)

SymbolLists    == {SubSeq(AllSymbols, 1, n) : n \in 0..MaxSymbols}
TimeframeLists == {SubSeq(Timeframes, 1, n) : n \in 1..Len(Timeframes)}

NumPairs   == Len(scan_symbols) * Len(scan_timeframes)
PairSymbol(i)    == scan_symbols[((i - 1) \div Len(scan_timeframes)) + 1]
PairTimeframe(i) == scan_timeframes[((i - 1) % Len(scan_timeframes)) + 1]

\* the loop over self.strategies.items() for one frame
RECURSIVE EvaluateStrategies(_, _, _, _)
EvaluateStrategies(strats, symbol, data, timeframe) ==
    IF strats = <<>> THEN <<>>
    ELSE LET strategy == Head(strats).value
             signal == IF ~strategy.is_active THEN <<>>
                       ELSE AnalyzeSymbol(strategy, symbol, data, timeframe)
         IN  signal \o EvaluateStrategies(Tail(strats), symbol, data, timeframe)

\* the loop body as it would be with the try/except outside the loops: a
\* failed fetch ends the scan
ScanPairBody_FetchErrorEndsScan(strats, symbol, timeframe, fetch) ==
    IF fetch.raised THEN [append |-> <<>>, abort |-> TRUE]
    ELSE IF fetch.data.bars = 0 THEN [append |-> <<>>, abort |-> FALSE]
    ELSE [append |-> EvaluateStrategies(strats, symbol, fetch.data, timeframe),
          abort  |-> FALSE]

\* the body of the loop for one (symbol, timeframe): what it appends to
\* `signals`, and whether an exception leaves the loop
ScanPairBody(strats, symbol, timeframe, fetch) ==
    IF fetch.raised THEN [append |-> <<>>, abort |-> FALSE]
    ELSE IF fetch.data.bars = 0 THEN [append |-> <<>>, abort |-> FALSE]
    ELSE [append |-> EvaluateStrategies(strats, symbol, fetch.data, timeframe),
          abort  |-> FALSE]

ScanStart(symbols, timeframes) ==
    /\ scan_pc = "idle"
    /\ scan_pc' = "fetch"
    /\ scan_symbols' = symbols
    /\ scan_timeframes' = timeframes
    /\ scan_idx' = 1
    /\ signals' = <<>>
    /\ scan_log' = <<>>
    /\ scan_api0' = Len(api_log)
    /\ UNCHANGED <<regVars, dispVars, confVars, libVars>>

\* one iteration: the await of get_historical_data returns (or raises) and the
\* strategies are evaluated without further suspension
ScanPair(fetch) ==
    /\ scan_pc = "fetch"
    /\ scan_idx <= NumPairs
    /\ LET r == ScanPairBody(strategies, PairSymbol(scan_idx),
                             PairTimeframe(scan_idx), fetch)
       IN  /\ signals' = signals \o r.append
           /\ scan_pc' = IF r.abort THEN "aborted" ELSE "fetch"
    /\ scan_log' = Append(scan_log, [symbol |-> PairSymbol(scan_idx),
                                     timeframe |-> PairTimeframe(scan_idx),
                                     fetch |-> fetch,
                                     registry |-> strategies])
    /\ scan_idx' = scan_idx + 1
    /\ UNCHANGED <<scan_symbols, scan_timeframes, scan_api0>>
    /\ UNCHANGED <<regVars, dispVars, confVars, libVars>>

ScanReturn ==
    /\ scan_pc = "fetch"
    /\ scan_idx > NumPairs
    /\ scan_pc' = "done"
    /\ UNCHANGED <<scan_symbols, scan_timeframes, scan_idx, signals, scan_api0, scan_log>>
    /\ UNCHANGED <<regVars, dispVars, confVars, libVars>>

-----------------------------------------------------------------------------
(* RiskManager *)

Abs(x) == IF x < 0 THEN -x ELSE x
\* int(a / b) for b # 0: the quotient truncated toward zero
TruncDiv(a, b) ==
    IF (a >= 0) = (b > 0) THEN Abs(a) \div Abs(b) ELSE -(Abs(a) \div Abs(b))

\* calculate_position_size; a zero price raises ZeroDivisionError, caught.
\* The code divides in doubles; the quotient is taken exactly here.
CalculatePositionSize(cfg, price, account_value) ==
    IF price = 0 THEN 0
    ELSE LET position_size ==
                 TruncDiv(account_value * cfg.capital_allocation_percent, 100 * price)
         IN  IF position_size < 1 THEN 0 ELSE position_size

Allowed(reason)  == [is_allowed |-> TRUE, reason |-> reason]
Refused(reason)  == [is_allowed |-> FALSE, reason |-> reason]

\* check_risk_limits as it would be without the maximum-positions test
CheckPositionLimits_NoMaximum(cfg, symbol, side, held) ==
    IF symbol \in held /\ side = "BUY"
    THEN Refused("Already holding position")
    ELSE Allowed("continue")

\* check_risk_limits as it would be with `>` for `>=` in the maximum test
CheckPositionLimits_StrictlyMore(cfg, symbol, side, held) ==
    IF Cardinality(held) > cfg.max_positions
    THEN Refused("Maximum positions limit reached")
    ELSE IF symbol \in held /\ side = "BUY"
    THEN Refused("Already holding position")
    ELSE Allowed("continue")

\* check_risk_limits, from the return of get_positions to the next await
CheckPositionLimits(cfg, symbol, side, held) ==
    IF Cardinality(held) >= cfg.max_positions
    THEN Refused("Maximum positions limit reached")
    ELSE IF symbol \in held /\ side = "BUY"
    THEN Refused("Already holding position")
    ELSE Allowed("continue")

\* check_risk_limits as it would be with `>=` for `>` in the buying-power test
CheckBuyingPower_RefusesEqual(quantity, price, buying_power) ==
    IF quantity * price >= buying_power
    THEN Refused("Insufficient buying power")
    ELSE Allowed("Risk checks passed")

\* check_risk_limits, from the return of get_account_info to its end
CheckBuyingPower(quantity, price, buying_power) ==
    IF quantity * price > buying_power
    THEN Refused("Insufficient buying power")
    ELSE Allowed("Risk checks passed")

\* the except clause as it would be if a failed lookup let the trade through
RiskCheckError_FailsOpen == Allowed("Risk check error")

\* the except clause of check_risk_limits
RiskCheckError == Refused("Risk check error")

-----------------------------------------------------------------------------
(* StrategyEngine.execute_signal *)

Procs == {"d1", "d2"}
Modes == {"alert_only", "semi_auto", "auto"}

NoSignal ==
    [symbol |-> "", side |-> "", confidence |-> 0, price |-> 0, stop_loss |-> 0,
     take_profit |-> 0, timeframe |-> "", strategy_name |-> ""]
\* the signals handed to execute_signal
DispatchSignals ==
    {[symbol |-> sy, side |-> sd, confidence |-> 70, price |-> p,
      stop_loss |-> IF sd = "BUY" THEN p * 98 ELSE p * 102,
      take_profit |-> IF sd = "BUY" THEN p * 104 ELSE p * 96,
      timeframe |-> "1D", strategy_name |-> n] :
        sy \in {"AAPL", "MSFT"}, sd \in {"BUY", "SELL"}, p \in {50, 200}, n \in Names}

Result(status, message, quantity) ==
    [status |-> status, message |-> message, quantity |-> quantity]
NoResult == Result("none", "", 0)

NoCalls == [account_info |-> 0, position_size |-> 0, risk_check |-> 0,
            get_positions |-> 0, place_order |-> 0]

\* a coroutine that has not been started
IdleDispatch ==
    [pc |-> "idle", signal |-> NoSignal, automation_mode |-> "",
     risk_manager |-> NoConfig, quantity |-> 0, check |-> <<>>,
     result |-> NoResult, calls |-> NoCalls,
     seen_equity |-> 0, seen_positions |-> {}, seen_buying_power |-> 0,
     lookup_raised |-> FALSE, place_raised |-> FALSE]

DispatchIdle ==
    /\ account = [equity |-> 0, buying_power |-> 0]
    /\ positions = {}
    /\ orders = <<>>
    /\ dispatch = [d \in Procs |-> IdleDispatch]
    /\ pending_signals = <<>>
    /\ requests = <<>>

Called(rec, what) == [rec EXCEPT !.calls[what] = @ + 1]
Finish(rec, result) == [rec EXCEPT !.pc = "done", !.result = result]

\* the entry as it would be without the ALERT_ONLY test
ExecuteEntry_NoAlertTest(automation_mode, signal, rms) ==
    IF ~DictHas(rms, signal.strategy_name) THEN "no_risk_manager"
    ELSE "size"

\* the entry as it would be with the risk-manager lookup before the
\* ALERT_ONLY test
ExecuteEntry_LookupFirst(automation_mode, signal, rms) ==
    IF ~DictHas(rms, signal.strategy_name) THEN "no_risk_manager"
    ELSE IF automation_mode = "alert_only" THEN "alert"
    ELSE "size"

\* execute_signal up to its first await
ExecuteEntry(automation_mode, signal, rms) ==
    IF automation_mode = "alert_only" THEN "alert"
    ELSE IF ~DictHas(rms, signal.strategy_name) THEN "no_risk_manager"
    ELSE "size"

\* the code after the risk check as it would be if a refusal did not return
AfterRiskCheck_IgnoresRefusal(check, automation_mode) ==
    IF automation_mode = "auto" THEN "place_order" ELSE "pending_confirmation"

\* the code after the risk check as it would be without the AUTO test
AfterRiskCheck_AlwaysPlaces(check, automation_mode) ==
    IF ~check.is_allowed THEN "rejected" ELSE "place_order"

\* execute_signal after check_risk_limits has returned
AfterRiskCheck(check, automation_mode) ==
    IF ~check.is_allowed THEN "rejected"
    ELSE IF automation_mode = "auto" THEN "place_order"
    ELSE "pending_confirmation"

\* the end of execute_signal as it would be if a failed order were reported
\* like a placed one
AfterPlaceOrder_SwallowsFailure(raised) == "executed"

\* execute_signal after place_order has returned or raised
AfterPlaceOrder(raised) == IF raised THEN "error" ELSE "executed"

\* the brokerage accepting a market order: it is filled at the signal's price
BrokerFill(d, signal, quantity) ==
    /\ orders' = Append(orders, [dispatch |-> d, symbol |-> signal.symbol,
                                 side |-> signal.side, quantity |-> quantity])
    /\ positions' = IF signal.side = "SELL" /\ signal.symbol \in positions
                    THEN positions \ {signal.symbol}
                    ELSE positions \cup {signal.symbol}
    /\ account' = [account EXCEPT !.buying_power =
                      IF signal.side = "SELL" /\ signal.symbol \in positions
                      THEN @ + quantity * signal.price
                      ELSE @ - quantity * signal.price]

\* lines 387-401: entry, up to `await get_account_info()`
DispatchStart(d, signal, automation_mode) ==
    /\ dispatch[d].pc = "idle"
    /\ LET rec == [dispatch[d] EXCEPT !.signal = signal,
                                      !.automation_mode = automation_mode]
           entry == ExecuteEntry(automation_mode, signal, risk_managers)
       IN  dispatch' = [dispatch EXCEPT ![d] =
              CASE entry = "alert" ->
                       Finish(rec, Result("alert", "Alert", 0))
                [] entry = "no_risk_manager" ->
                       Finish(rec, Result("error", "Risk manager not found", 0))
                [] OTHER ->
                       Called([rec EXCEPT !.pc = "account_info",
                                          !.risk_manager =
                                              DictGet(risk_managers, signal.strategy_name)],
                              "account_info")]
    /\ UNCHANGED <<account, positions, orders, regVars, scanVars, confVars, libVars>>

\* lines 401-410 and 276-278: get_account_info returns or raises, the position
\* is sized, check_risk_limits is entered, up to `await get_positions()`
DispatchSize(d, raised) ==
    /\ dispatch[d].pc = "account_info"
    /\ LET rec == dispatch[d]
           quantity == CalculatePositionSize(rec.risk_manager, rec.signal.price,
                                             account.equity)
           sized == Called([rec EXCEPT !.quantity = quantity,
                                       !.seen_equity = account.equity],
                           "position_size")
       IN  dispatch' = [dispatch EXCEPT ![d] =
              IF raised
              THEN Finish(rec, Result("error", "get_account_info failed", 0))
              ELSE IF quantity = 0
              THEN Finish(sized, Result("error", "Position size is zero", 0))
              ELSE Called(Called([sized EXCEPT !.pc = "get_positions"],
                                 "risk_check"), "get_positions")]
    /\ UNCHANGED <<account, positions, orders, regVars, scanVars, confVars, libVars>>

\* what execute_signal does with the answer of check_risk_limits
Checked(rec, check) ==
    LET after == AfterRiskCheck(check, rec.automation_mode)
        done  == [rec EXCEPT !.check = <<check>>]
    IN  CASE after = "rejected" ->
                 Finish(done, Result("rejected", check.reason, 0))
          [] after = "place_order" ->
                 Called([done EXCEPT !.pc = "place_order"], "place_order")
          [] OTHER ->
                 Finish(done, Result("pending_confirmation", "Confirm", rec.quantity))

\* lines 278-291: get_positions returns or raises, the position limits are
\* checked, up to `await get_account_info()` inside check_risk_limits
DispatchPositions(d, raised) ==
    /\ dispatch[d].pc = "get_positions"
    /\ LET rec == dispatch[d]
           seen == [rec EXCEPT !.seen_positions = positions]
           limits == CheckPositionLimits(rec.risk_manager, rec.signal.symbol,
                                         rec.signal.side, positions)
       IN  dispatch' = [dispatch EXCEPT ![d] =
              IF raised
              THEN Checked([rec EXCEPT !.lookup_raised = TRUE], RiskCheckError)
              ELSE IF ~limits.is_allowed THEN Checked(seen, limits)
              ELSE Called([seen EXCEPT !.pc = "buying_power"], "account_info")]
    /\ UNCHANGED <<account, positions, orders, regVars, scanVars, confVars, libVars>>

\* lines 291-296 and 414-438: get_account_info returns or raises, the buying
\* power is checked, check_risk_limits returns, up to `await place_order(...)`
DispatchBuyingPower(d, raised) ==
    /\ dispatch[d].pc = "buying_power"
    /\ LET rec == dispatch[d]
           seen == [rec EXCEPT !.seen_buying_power = account.buying_power]
       IN  dispatch' = [dispatch EXCEPT ![d] =
              IF raised
              THEN Checked([rec EXCEPT !.lookup_raised = TRUE], RiskCheckError)
              ELSE Checked(seen, CheckBuyingPower(rec.quantity, rec.signal.price,
                                                  account.buying_power))]
    /\ UNCHANGED <<account, positions, orders, regVars, scanVars, confVars, libVars>>

\* lines 419-430 and 440-442: place_order returns or raises
DispatchPlace(d, raised) ==
    /\ dispatch[d].pc = "place_order"
    /\ LET rec == [dispatch[d] EXCEPT !.place_raised = raised]
           after == AfterPlaceOrder(raised)
       IN  dispatch' = [dispatch EXCEPT ![d] =
              IF after = "executed"
              THEN Finish(rec, Result("executed", "order", rec.quantity))
              ELSE Finish(rec, Result("error", "place_order failed", 0))]
    /\ IF raised THEN UNCHANGED <<account, positions, orders>>
       ELSE BrokerFill(d, dispatch[d].signal, dispatch[d].quantity)
    /\ UNCHANGED <<regVars, scanVars, confVars, libVars>>

-----------------------------------------------------------------------------
(* The engine under create_strategy / delete_strategy requests and one scan *)

\* no call of the sentiment filter or of the indicator library made yet
IdleGate == [pc |-> "idle"]
IdleCalc == [pc |-> "idle"]
LibIdle ==
    /\ gate = IdleGate
    /\ calc = IdleCalc

ScanIdle ==
    /\ scan_pc = "idle"
    /\ scan_symbols = <<>>
    /\ scan_timeframes = <<>>
    /\ scan_idx = 1
    /\ signals = <<>>
    /\ scan_api0 = Len(api_log)
    /\ scan_log = <<>>

\* the engine as constructed: both dicts empty
InitRegistry ==
    /\ strategies = <<>>
    /\ risk_managers = <<>>
    /\ api_raised = FALSE
    /\ api_log = <<>>
    /\ ScanIdle
    /\ LibIdle
    /\ DispatchIdle

NextRegistry ==
    \/ \E c \in ScanConfigs :
          /\ Len(api_log) < MaxApiCalls
          /\ AddStrategy(c) /\ UNCHANGED <<scanVars, dispVars, confVars, libVars>>
    \/ \E n \in Names :
          /\ Len(api_log) < MaxApiCalls
          /\ RemoveStrategy(n) /\ UNCHANGED <<scanVars, dispVars, confVars, libVars>>

SpecRegistry == InitRegistry /\ [][NextRegistry]_vars

\* the create_strategy requests served before the scan starts: at most one
\* per name
AddCall(c) == [op |-> "add", name |-> c.name, config |-> c]
SetupLogs ==
    {<<>>} \cup {<<AddCall(c)>> : c \in ScanConfigs}
           \cup {<<AddCall(p[1]), AddCall(p[2])>> :
                    p \in {q \in ScanConfigs \X ScanConfigs : q[1].name # q[2].name}}
RECURSIVE RegistryAfter(_)
RegistryAfter(log) ==
    IF log = <<>> THEN [strategies |-> <<>>, risk_managers |-> <<>>, raised |-> FALSE]
    ELSE AddStrategyOp(RegistryAfter(SubSeq(log, 1, Len(log) - 1)), Last(log).config)

InitScan ==
    /\ \E log \in SetupLogs :
          /\ api_log = log
          /\ strategies = RegistryAfter(log).strategies
          /\ risk_managers = RegistryAfter(log).risk_managers
    /\ api_raised = FALSE
    /\ ScanIdle
    /\ LibIdle
    /\ DispatchIdle

\* add/remove calls made since the scan started
ApiCallsInScan == Len(api_log) - scan_api0

NextScan ==
    \/ \E c \in ScanConfigs :
          /\ scan_pc = "fetch" /\ ApiCallsInScan < MaxScanApiCalls
          /\ AddStrategy(c) /\ UNCHANGED <<scanVars, dispVars, confVars, libVars>>
    \/ \E n \in Names :
          /\ scan_pc = "fetch" /\ ApiCallsInScan < MaxScanApiCalls
          /\ RemoveStrategy(n) /\ UNCHANGED <<scanVars, dispVars, confVars, libVars>>
    \/ \E s \in SymbolLists, t \in TimeframeLists : ScanStart(s, t)
    \/ \E f \in FetchOutcomes : ScanPair(f)
    \/ ScanReturn

SpecScan == InitScan /\ [][NextScan]_vars

-----------------------------------------------------------------------------
(* Two execute_signal coroutines against one brokerage account *)

\* the registry and the account the dispatches start from
DispatchConfigs == {Config("alpha", TRUE, 2)}
InitDispatch ==
    /\ \E log \in {<<>>} \cup {<<AddCall(c)>> : c \in DispatchConfigs} :
          /\ api_log = log
          /\ strategies = RegistryAfter(log).strategies
          /\ risk_managers = RegistryAfter(log).risk_managers
    /\ api_raised = FALSE
    /\ ScanIdle
    /\ LibIdle
    /\ \E bp \in {50, 100, 150, 1000} : account = [equity |-> 1000, buying_power |-> bp]
    /\ positions \in {{}, {"TSLA"}, {"AAPL"}, {"TSLA", "AAPL"}}
    /\ orders = <<>>
    /\ dispatch = [d \in Procs |-> IdleDispatch]
    /\ pending_signals = <<>>
    /\ requests = <<>>

NextDispatch ==
    \/ \E d \in Procs, sg \in DispatchSignals, m \in Modes : DispatchStart(d, sg, m)
    \/ \E d \in Procs, raised \in BOOLEAN : DispatchSize(d, raised)
    \/ \E d \in Procs, raised \in BOOLEAN : DispatchPositions(d, raised)
    \/ \E d \in Procs, raised \in BOOLEAN : DispatchBuyingPower(d, raised)
    \/ \E d \in Procs, raised \in BOOLEAN : DispatchPlace(d, raised)

SpecDispatch == InitDispatch /\ [][NextDispatch]_vars

-----------------------------------------------------------------------------
(* calculate_position_size over the prices, equities and allocations it can
   be handed, through one execute_signal call *)

SizePrices      == {-50, -1, 0, 1, 3, 50, 200, 20000}
SizeEquities    == {-1000, 0, 100, 1000, 100000}
SizeAllocations == {10, 29, 100}
SizeSignals ==
    {[symbol |-> "AAPL", side |-> "BUY", confidence |-> 70, price |-> p,
      stop_loss |-> p * 98, take_profit |-> p * 104,
      timeframe |-> "1D", strategy_name |-> "alpha"] : p \in SizePrices}

InitSize ==
    /\ \E a \in SizeAllocations :
          LET log == <<AddCall([Config("alpha", TRUE, 2)
                                   EXCEPT !.capital_allocation_percent = a])>>
          IN  /\ api_log = log
              /\ strategies = RegistryAfter(log).strategies
              /\ risk_managers = RegistryAfter(log).risk_managers
    /\ api_raised = FALSE
    /\ ScanIdle
    /\ LibIdle
    /\ \E eq \in SizeEquities : account = [equity |-> eq, buying_power |-> 1000000]
    /\ positions = {}
    /\ orders = <<>>
    /\ dispatch = [d \in Procs |-> IdleDispatch]
    /\ pending_signals = <<>>
    /\ requests = <<>>

NextSize ==
    \/ \E sg \in SizeSignals, m \in {"semi_auto", "auto"} : DispatchStart("d1", sg, m)
    \/ \E raised \in BOOLEAN : DispatchSize("d1", raised)
    \/ \E raised \in BOOLEAN : DispatchPositions("d1", raised)
    \/ \E raised \in BOOLEAN : DispatchBuyingPower("d1", raised)
    \/ \E raised \in BOOLEAN : DispatchPlace("d1", raised)

SpecSize == InitSize /\ [][NextSize]_vars

-----------------------------------------------------------------------------
(* analyze_symbol over the frames and configurations it can be handed,
   through one scan of one symbol and one timeframe *)

\* the default thresholds; a longer stochastic period; thresholds set the
\* wrong way round (oversold above overbought)
EvalConfigs ==
    { Config("alpha", TRUE, 2),
      [Config("alpha", TRUE, 2) EXCEPT !.stoch_k_period = 30,
                                       !.stop_loss_percent = 5],
      [Config("alpha", TRUE, 2) EXCEPT !.stoch_oversold = 80,
                                       !.stoch_overbought = 20,
                                       !.cci_oversold = 100,
                                       !.cci_overbought = -100,
                                       !.stop_loss_percent = 60] }

\* the volume column: absent, or the last two cells
EvalVolumes ==
    { [has |-> FALSE, vol |-> NaN, pvol |-> NaN],
      [has |-> TRUE, vol |-> Num(1000), pvol |-> Num(1000)],
      [has |-> TRUE, vol |-> Num(900), pvol |-> Num(1000)],
      [has |-> TRUE, vol |-> Num(800), pvol |-> Num(1000)],
      [has |-> TRUE, vol |-> NaN, pvol |-> Num(1000)] }

EvalData ==
    { [Bars(n, k, d, cci, rsi, close, v.vol, v.pvol) EXCEPT !.has_volume = v.has] :
        n \in {29, 30, 39, 40},
        k \in {NaN, Num(19), Num(20), Num(22), Num(50), Num(85)},
        d \in {NaN, Num(18), Num(40), Num(60), Num(90)},
        cci \in {NaN, Num(-110), Num(-100), Num(0), Num(100), Num(110)},
        rsi \in {NaN, Num(20), Num(25), Num(40), Num(75), Num(80)},
        close \in {7, 50},
        v \in EvalVolumes }

EvalOutcomes ==
    {[raised |-> TRUE, data |-> EmptyFrame]} \cup
    {[raised |-> FALSE, data |-> d] : d \in EvalData}

InitEvaluate ==
    /\ \E c \in EvalConfigs :
          /\ api_log = <<AddCall(c)>>
          /\ strategies = RegistryAfter(<<AddCall(c)>>).strategies
          /\ risk_managers = RegistryAfter(<<AddCall(c)>>).risk_managers
    /\ api_raised = FALSE
    /\ ScanIdle
    /\ LibIdle
    /\ DispatchIdle

NextEvaluate ==
    \/ ScanStart(<<"AAPL">>, <<"1D">>)
    \/ /\ scan_pc = "fetch" /\ scan_idx <= NumPairs
       /\ \E fetch \in EvalOutcomes : ScanPair(fetch)
    \/ ScanReturn

SpecEvaluate == InitEvaluate /\ [][NextEvaluate]_vars

-----------------------------------------------------------------------------
(* A scan, then the dispatch of its signals, with remove_strategy called at
   any point in between *)

InitPipeline ==
    /\ api_log = <<AddCall(Config("alpha", TRUE, 2))>>
    /\ strategies = RegistryAfter(api_log).strategies
    /\ risk_managers = RegistryAfter(api_log).risk_managers
    /\ api_raised = FALSE
    /\ ScanIdle
    /\ LibIdle
    /\ account = [equity |-> 1000, buying_power |-> 1000]
    /\ positions = {}
    /\ orders = <<>>
    /\ dispatch = [d \in Procs |-> IdleDispatch]
    /\ pending_signals = <<>>
    /\ requests = <<>>

NextPipeline ==
    \/ ScanStart(<<"AAPL">>, <<"1D">>)
    \/ /\ scan_pc = "fetch" /\ scan_idx <= NumPairs
       /\ \E fetch \in FetchOutcomes : ScanPair(fetch)
    \/ ScanReturn
    \/ \E n \in Names :
          /\ Len(api_log) < MaxApiCalls
          /\ RemoveStrategy(n) /\ UNCHANGED <<scanVars, dispVars, confVars, libVars>>
    \/ /\ scan_pc = "done"
       /\ \E d \in Procs, i \in 1..Len(signals), m \in Modes :
             DispatchStart(d, signals[i], m)
    \/ \E d \in Procs, raised \in BOOLEAN : DispatchSize(d, raised)
    \/ \E d \in Procs, raised \in BOOLEAN : DispatchPositions(d, raised)
    \/ \E d \in Procs, raised \in BOOLEAN : DispatchBuyingPower(d, raised)
    \/ \E d \in Procs, raised \in BOOLEAN : DispatchPlace(d, raised)

SpecPipeline == InitPipeline /\ [][NextPipeline]_vars

-----------------------------------------------------------------------------
(* SentimentAnalyzer.filter_signals_by_sentiment; scores in hundredths *)

DefaultMinSentimentScore == -10

\* OrderSide.BUY.value, OrderSide.SELL.value
SideValue(side) == IF side = "BUY" THEN "buy" ELSE "sell"

\* sentiment_data.get(symbol, {}).get('sentiment_score', 0.0)
SentimentScore(sentiment_data, symbol) ==
    LET sentiment_info == IF DictHas(sentiment_data, symbol)
                          THEN DictGet(sentiment_data, symbol) ELSE <<>>
    IN  IF DictHas(sentiment_info, "sentiment_score")
        THEN DictGet(sentiment_info, "sentiment_score") ELSE 0

\* the filter as it would be with the threshold applied to every signal
FilterSignalsBySentiment_AnySide(sigs, sentiment_data, min_sentiment_score) ==
    SelectSeq(sigs, LAMBDA signal :
        SentimentScore(sentiment_data, signal.symbol) >= min_sentiment_score)

\* the loop of filter_signals_by_sentiment: signals appended in order
FilterSignalsBySentiment(sigs, sentiment_data, min_sentiment_score) ==
    SelectSeq(sigs, LAMBDA signal :
        IF SideValue(signal.side) = "buy"
        THEN SentimentScore(sentiment_data, signal.symbol) >= min_sentiment_score
        ELSE TRUE)

GateSymbols == {"AAPL", "TSLA"}
GateSignals ==
    {TradingSignal(symbol, side,
                   [confidence |-> 70, stop_loss |-> 4900, take_profit |-> 5200],
                   50, "1D", "alpha") :
        symbol \in GateSymbols, side \in {"BUY", "SELL"}}
GateSignalLists ==
    UNION {[1..n -> GateSignals] : n \in 0..MaxGateSignals}

\* per symbol: no entry, an entry without a score, or an entry with a score
GateInfos ==
    {<<[key |-> "news_count", value |-> 0]>>} \cup
    {<<[key |-> "sentiment_score", value |-> v], [key |-> "news_count", value |-> 3]>> :
        v \in {-50, -10, 0, 30}}
GateEntries(symbol) ==
    {<<>>} \cup {<<[key |-> symbol, value |-> info]>> : info \in GateInfos}
GateSentiments == {a \o t : a \in GateEntries("AAPL"), t \in GateEntries("TSLA")}
GateMinScores == {DefaultMinSentimentScore, 20}

GateCall(sigs, sentiment_data, min_sentiment_score) ==
    /\ gate.pc = "idle"
    /\ gate' = [pc |-> "called", signals |-> sigs,
                sentiment_data |-> sentiment_data,
                min_sentiment_score |-> min_sentiment_score,
                filtered_signals |-> <<>>]
    /\ UNCHANGED <<regVars, scanVars, dispVars, confVars, calc>>

GateReturn ==
    /\ gate.pc = "called"
    /\ gate' = [gate EXCEPT
                  !.pc = "returned",
                  !.filtered_signals =
                      FilterSignalsBySentiment(gate.signals, gate.sentiment_data,
                                               gate.min_sentiment_score)]
    /\ UNCHANGED <<regVars, scanVars, dispVars, confVars, calc>>

InitLibrary == InitPipeline

NextGate ==
    \/ /\ gate.pc = "idle"
       /\ \E sigs \in GateSignalLists, sentiment_data \in GateSentiments,
             min_sentiment_score \in GateMinScores :
             GateCall(sigs, sentiment_data, min_sentiment_score)
    \/ GateReturn

SpecGate == InitLibrary /\ [][NextGate]_vars

-----------------------------------------------------------------------------
(* TechnicalIndicators. A float is NaN, or Num of an exact fraction n/d with
   d > 0, or Num of an infinity (d = 0). A Series is a sequence of floats;
   the empty sequence is the empty pd.Series() an indicator returns when it
   has caught an exception. The bars handed in have low <= close <= high. *)

RECURSIVE GCD(_, _)
GCD(a, b) == IF b = 0 THEN a ELSE GCD(b, a % b)

Q(n, d) ==
    LET s == IF d < 0 THEN -1 ELSE 1
        g == GCD(Abs(n), Abs(d))
    IN  [n |-> (s * n) \div g, d |-> (s * d) \div g]
QInt(i)    == [n |-> i, d |-> 1]
QAdd(a, b) == Q(a.n * b.d + b.n * a.d, a.d * b.d)
QSub(a, b) == Q(a.n * b.d - b.n * a.d, a.d * b.d)
QMul(a, b) == Q(a.n * b.n, a.d * b.d)
QDiv(a, b) == Q(a.n * b.d, a.d * b.n)
QLt(a, b)  == a.n * b.d < b.n * a.d
QAbs(a)    == [n |-> Abs(a.n), d |-> a.d]

RECURSIVE QSum(_)
QSum(s) == IF s = <<>> THEN QInt(0) ELSE QAdd(Head(s), QSum(Tail(s)))

RECURSIVE QPow(_, _)
QPow(a, k) == IF k = 0 THEN QInt(1) ELSE QMul(a, QPow(a, k - 1))

Inf(sign)  == [n |-> sign, d |-> 0]
IsInf(q)   == q.d = 0
Sign(i)    == IF i < 0 THEN -1 ELSE 1

\* float64 +, -, / on the values that arise (x/0 is NaN for x = 0, otherwise
\* an infinity; x/inf is 0; inf + x is inf)
FAdd(a, b) ==
    IF a = NaN \/ b = NaN THEN NaN
    ELSE IF IsInf(a[1]) THEN a
    ELSE IF IsInf(b[1]) THEN b
    ELSE Num(QAdd(a[1], b[1]))
FSub(a, b) ==
    IF a = NaN \/ b = NaN THEN NaN
    ELSE IF IsInf(a[1]) THEN a
    ELSE IF IsInf(b[1]) THEN Num(Inf(-b[1].n))
    ELSE Num(QSub(a[1], b[1]))
FDiv(a, b) ==
    IF a = NaN \/ b = NaN THEN NaN
    ELSE IF IsInf(b[1]) THEN (IF IsInf(a[1]) THEN NaN ELSE Num(QInt(0)))
    ELSE IF b[1].n = 0
         THEN (IF a[1].n = 0 THEN NaN ELSE Num(Inf(Sign(a[1].n))))
    ELSE IF IsInf(a[1]) THEN Num(Inf(a[1].n * Sign(b[1].n)))
    ELSE Num(QDiv(a[1], b[1]))
FScale(q, a) == IF a = NaN \/ IsInf(a[1]) THEN a ELSE Num(QMul(q, a[1]))

EmptySeries == <<>>
SeriesOf(ints) == [i \in 1..Len(ints) |-> Num(QInt(ints[i]))]
SeriesSub(a, b) == [i \in 1..Len(a) |-> FSub(a[i], b[i])]
Values(win) == [j \in 1..Len(win) |-> win[j][1]]

QMean(vals) == QDiv(QSum(vals), QInt(Len(vals)))
RollMin(vals)  == Num(CHOOSE v \in {vals[j] : j \in 1..Len(vals)} :
                         \A j \in 1..Len(vals) : ~QLt(vals[j], v))
RollMax(vals)  == Num(CHOOSE v \in {vals[j] : j \in 1..Len(vals)} :
                         \A j \in 1..Len(vals) : ~QLt(v, vals[j]))
RollMean(vals) == Num(QMean(vals))
\* lambda x: np.mean(np.abs(x - x.mean()))
MeanDeviation(vals) ==
    Num(QMean([j \in 1..Len(vals) |-> QAbs(QSub(vals[j], QMean(vals)))]))
\* lambda x: np.dot(x, weights) / weights.sum(), weights 1..period
Weighted(vals) ==
    Num(QDiv(QSum([j \in 1..Len(vals) |-> QMul(QInt(j), vals[j])]),
             QInt((Len(vals) * (Len(vals) + 1)) \div 2)))
\* the square of rolling(...).std(): the sample variance, NaN on one value
RollVar(vals) ==
    IF Len(vals) < 2 THEN NaN
    ELSE Num(QDiv(QSum([j \in 1..Len(vals) |->
                          QMul(QSub(vals[j], QMean(vals)), QSub(vals[j], QMean(vals)))]),
                  QInt(Len(vals) - 1)))

\* the statistic taken over a full window
RollStat(stat, vals) ==
    CASE stat = "min"  -> RollMin(vals)
      [] stat = "max"  -> RollMax(vals)
      [] stat = "mean" -> RollMean(vals)
      [] stat = "mean_deviation" -> MeanDeviation(vals)
      [] stat = "weighted" -> Weighted(vals)
      [] stat = "var"  -> RollVar(vals)

\* series.rolling(window).<stat>() as it would be computed on every
\* bar (min_periods = 1)
Rolling_PartialWindows(series, window, stat) ==
    [i \in 1..Len(series) |->
        LET win == SubSeq(series, IF i < window THEN 1 ELSE i - window + 1, i)
        IN  IF \E j \in 1..Len(win) : win[j] = NaN THEN NaN ELSE RollStat(stat, Values(win))]

\* series.rolling(window=window).<stat>(): NaN until the window is full
Rolling(series, window, stat) ==
    [i \in 1..Len(series) |->
        IF i < window THEN NaN
        ELSE LET win == SubSeq(series, i - window + 1, i)
             IN  IF \E j \in 1..Len(win) : win[j] = NaN THEN NaN ELSE RollStat(stat, Values(win))]

\* rolling(...) raises ValueError for a negative window, ewm(span=...) for a
\* span below 1
RollingRaises(window) == window < 0
EwmRaises(span)       == span < 1

\* series.ewm(span=span).mean() (adjust=True, min_periods=0) of a series
\* without NaN: the weighted mean of all values so far, weights (1-alpha)^i,
\* alpha = 2/(span+1)
Ewm(series, span) ==
    LET decay == Q(span - 1, span + 1)
    IN  [t \in 1..Len(series) |->
            Num(QDiv(QSum([i \in 1..t |-> QMul(QPow(decay, t - i), series[i][1])]),
                     QSum([i \in 1..t |-> QPow(decay, t - i)])))]

StochasticOscillator(high, low, close, k_period, d_period) ==
    IF RollingRaises(k_period) \/ RollingRaises(d_period)
    THEN [k_percent |-> EmptySeries, d_percent |-> EmptySeries]
    ELSE LET lowest_low   == Rolling(low, k_period, "min")
             highest_high == Rolling(high, k_period, "max")
             k_percent == [i \in 1..Len(close) |->
                              FScale(QInt(100),
                                     FDiv(FSub(close[i], lowest_low[i]),
                                          FSub(highest_high[i], lowest_low[i])))]
         IN  [k_percent |-> k_percent,
              d_percent |-> Rolling(k_percent, d_period, "mean")]

CommodityChannelIndex(high, low, close, period) ==
    IF RollingRaises(period) THEN EmptySeries
    ELSE LET typical_price == [i \in 1..Len(close) |->
                                  FScale(Q(1, 3), FAdd(FAdd(high[i], low[i]), close[i]))]
             sma_tp         == Rolling(typical_price, period, "mean")
             mean_deviation == Rolling(typical_price, period, "mean_deviation")
         IN  [i \in 1..Len(close) |->
                 FDiv(FSub(typical_price[i], sma_tp[i]),
                      FScale(Q(15, 1000), mean_deviation[i]))]

Rsi(close, period) ==
    IF RollingRaises(period) THEN EmptySeries
    ELSE LET delta == [i \in 1..Len(close) |->
                          IF i = 1 THEN NaN ELSE FSub(close[i], close[i - 1])]
             ups   == [i \in 1..Len(close) |->
                          IF delta[i] # NaN /\ delta[i][1].n > 0
                          THEN delta[i] ELSE Num(QInt(0))]
             downs == [i \in 1..Len(close) |->
                          IF delta[i] # NaN /\ delta[i][1].n < 0
                          THEN Num(QAbs(delta[i][1])) ELSE Num(QInt(0))]
             gain  == Rolling(ups, period, "mean")
             loss  == Rolling(downs, period, "mean")
         IN  [i \in 1..Len(close) |->
                 LET rs == FDiv(gain[i], loss[i])
                 IN  FSub(Num(QInt(100)),
                          FDiv(Num(QInt(100)), FAdd(Num(QInt(1)), rs)))]

MaTypes == {"sma", "ema", "wma", "hma"}
MovingAverageOf(close, period, ma_type) ==
    IF ma_type = "sma"
    THEN (IF RollingRaises(period) THEN EmptySeries ELSE Rolling(close, period, "mean"))
    ELSE IF ma_type = "ema"
    THEN (IF EwmRaises(period) THEN EmptySeries ELSE Ewm(close, period))
    ELSE IF ma_type = "wma"
    THEN (IF RollingRaises(period) THEN EmptySeries ELSE Rolling(close, period, "weighted"))
    ELSE EmptySeries

\* a band is kept exact as middle + sign * sqrt(square): square is
\* std_dev^2 times the rolling variance
Band(middle, sign, std_dev, var) ==
    IF middle = NaN \/ var = NaN THEN NaN
    ELSE Num([middle |-> middle[1], sign |-> sign,
              square |-> QMul(QInt(std_dev * std_dev), var[1])])
BollingerBands(close, period, std_dev) ==
    IF RollingRaises(period)
    THEN [upper |-> EmptySeries, middle |-> EmptySeries, lower |-> EmptySeries]
    ELSE LET middle == Rolling(close, period, "mean")
             var    == Rolling(close, period, "var")
         IN  [upper  |-> [i \in 1..Len(close) |-> Band(middle[i], 1, std_dev, var[i])],
              middle |-> middle,
              lower  |-> [i \in 1..Len(close) |-> Band(middle[i], -1, std_dev, var[i])]]

Macd(close, fast_period, slow_period, signal_period) ==
    IF EwmRaises(fast_period) \/ EwmRaises(slow_period) \/ EwmRaises(signal_period)
    THEN [macd |-> EmptySeries, signal |-> EmptySeries, histogram |-> EmptySeries]
    ELSE LET macd_line   == SeriesSub(Ewm(close, fast_period), Ewm(close, slow_period))
             signal_line == Ewm(macd_line, signal_period)
         IN  [macd |-> macd_line, signal |-> signal_line,
              histogram |-> SeriesSub(macd_line, signal_line)]

\* result_df[name] = series: aligned on the index, NaN where the series has
\* no value
Column(series, n) ==
    [i \in 1..n |-> IF i <= Len(series) THEN series[i] ELSE NaN]

IndicatorNames == {"stoch_k", "stoch_d", "cci", "rsi", "sma", "ema",
                   "bb_upper", "bb_middle", "bb_lower",
                   "macd", "macd_signal", "macd_histogram"}

\* what the indicator functions return to calculate_all_indicators
IndicatorOutputs(df, p) ==
    LET high  == SeriesOf([i \in 1..Len(df) |-> df[i].high])
        low   == SeriesOf([i \in 1..Len(df) |-> df[i].low])
        close == SeriesOf([i \in 1..Len(df) |-> df[i].close])
        stoch == StochasticOscillator(high, low, close, p.stoch_k_period, p.stoch_d_period)
        bb    == BollingerBands(close, p.bb_period, p.bb_std)
        m     == Macd(close, p.macd_fast, p.macd_slow, p.macd_signal)
    IN  [stoch_k |-> stoch.k_percent, stoch_d |-> stoch.d_percent,
         cci |-> CommodityChannelIndex(high, low, close, p.cci_period),
         rsi |-> Rsi(close, p.rsi_period),
         sma |-> MovingAverageOf(close, p.ma_period, "sma"),
         ema |-> MovingAverageOf(close, p.ma_period, "ema"),
         bb_upper |-> bb.upper, bb_middle |-> bb.middle, bb_lower |-> bb.lower,
         macd |-> m.macd, macd_signal |-> m.signal, macd_histogram |-> m.histogram]

\* calculate_all_indicators as it would be if the first indicator to fail
\* ended the computation
CalculateAllIndicators_FirstFailureAborts(df, p) ==
    LET out == IndicatorOutputs(df, p)
        failed == \E c \in IndicatorNames : Len(out[c]) # Len(df)
    IN  [returned |-> out,
         columns |-> [c \in IndicatorNames |->
                        IF failed THEN Column(EmptySeries, Len(df))
                        ELSE Column(out[c], Len(df))]]

\* calculate_all_indicators: what the indicator functions returned to it,
\* and the indicator columns of result_df
CalculateAllIndicators(df, p) ==
    LET out == IndicatorOutputs(df, p)
    IN  [returned |-> out,
         columns |-> [c \in IndicatorNames |-> Column(out[c], Len(df))]]

MaxBars == 3   \* longest frame handed to an indicator

IndicatorBars ==
    {[high |-> 1, low |-> 1, close |-> 1], [high |-> 2, low |-> 1, close |-> 2],
     [high |-> 3, low |-> 2, close |-> 2]}
IndicatorFrames == UNION {[1..n -> IndicatorBars] : n \in 0..MaxBars}

Params(k, d, cci, rsi, ma, bb, fast, slow, signal) ==
    [stoch_k_period |-> k, stoch_d_period |-> d, cci_period |-> cci,
     rsi_period |-> rsi, ma_period |-> ma, bb_period |-> bb, bb_std |-> 2,
     macd_fast |-> fast, macd_slow |-> slow, macd_signal |-> signal]
PeriodNames == {"stoch_k_period", "stoch_d_period", "cci_period", "rsi_period",
                "ma_period", "bb_period", "macd_fast", "macd_slow", "macd_signal"}
ValidParams ==
    {Params(1, 1, 1, 1, 1, 1, 1, 1, 1), Params(2, 2, 2, 2, 2, 2, 2, 2, 2),
     Params(3, 3, 3, 3, 3, 3, 3, 3, 3), Params(3, 2, 2, 3, 2, 3, 1, 2, 2)}
\* valid periods, or one period that makes its indicator raise
IndicatorParams ==
    ValidParams \cup
    {[p EXCEPT ![name] = -1] :
        p \in {Params(2, 2, 2, 2, 2, 2, 2, 2, 2), Params(3, 2, 2, 3, 2, 3, 1, 2, 2)},
        name \in PeriodNames}
MaPeriods == {-1, 1, 2, 3}

CalculateAll(df, p) ==
    /\ calc.pc = "idle"
    /\ LET r == CalculateAllIndicators(df, p)
       IN  calc' = [pc |-> "returned", op |-> "calculate_all_indicators",
                    df |-> df, params |-> p,
                    outputs |-> r.returned, result |-> r.columns,
                    raised |-> FALSE]
    /\ UNCHANGED <<regVars, scanVars, dispVars, confVars, gate>>

MovingAverage(df, period, ma_type) ==
    /\ calc.pc = "idle"
    /\ calc' = [pc |-> "returned", op |-> "moving_average",
                df |-> df, period |-> period, ma_type |-> ma_type,
                output |-> MovingAverageOf(
                              SeriesOf([i \in 1..Len(df) |-> df[i].close]),
                              period, ma_type)]
    /\ UNCHANGED <<regVars, scanVars, dispVars, confVars, gate>>

NextIndicators ==
    \/ /\ calc.pc = "idle"
       /\ \E df \in IndicatorFrames, p \in IndicatorParams : CalculateAll(df, p)
    \/ /\ calc.pc = "idle"
       /\ \E df \in IndicatorFrames, period \in MaPeriods, ma_type \in MaTypes :
             MovingAverage(df, period, ma_type)

SpecIndicators == InitLibrary /\ [][NextIndicators]_vars

-----------------------------------------------------------------------------
(* The confirm/reject routes over the scheduler's pending signals *)

\* the SEMI_AUTO signals the scheduler may hold for confirmation
HeldSignals ==
    {[symbol |-> sy, side |-> "BUY", confidence |-> 70, price |-> 50,
      stop_loss |-> 50 * 98, take_profit |-> 50 * 104,
      timeframe |-> tf, strategy_name |-> "alpha"] :
        sy \in {"AAPL", "MSFT"}, tf \in {"1D", "1H"}}

\* the quantity execute_signal computed for a held signal (equity 1000)
HeldQuantity(signal) ==
    CalculatePositionSize(Config(signal.strategy_name, TRUE, 2), signal.price, 1000)

\* next((s for s in signals if s.symbol == signal_id), None): <<>> for None
FindBySymbol(pending, signal_id) ==
    LET hits == {i \in 1..Len(pending) : pending[i].symbol = signal_id}
    IN  IF hits = {} THEN <<>>
        ELSE <<pending[CHOOSE i \in hits : \A j \in hits : i <= j]>>

\* scheduler.confirm_signal / reject_signal: a signal that is pending is taken
\* off the list (and, confirmed, executed); any other is refused
SchedulerResolve(pending, signal) ==
    IF \E i \in 1..Len(pending) : pending[i] = signal
    THEN [pending |-> SelectSeq(pending, LAMBDA x : x # signal), success |-> TRUE]
    ELSE [pending |-> pending, success |-> FALSE]

\* the scheduler holds a signal execute_signal answered pending_confirmation
HoldSignal(signal) ==
    /\ \A i \in 1..Len(pending_signals) : pending_signals[i] # signal
    /\ \A i \in 1..Len(requests) : requests[i].resolved # <<signal>>
    /\ pending_signals' = Append(pending_signals, signal)
    /\ UNCHANGED <<requests, regVars, scanVars, dispVars, libVars>>

\* the answer of either route: the signal it resolved (if any), the status
\* of the response
RouteAnswer(pending, signal_id) ==
    LET found == FindBySymbol(pending, signal_id)
    IN  IF found = <<>>
        THEN [pending |-> pending, resolved |-> <<>>, http |-> 500]
        ELSE LET r == SchedulerResolve(pending, found[1])
             IN  IF r.success
                 THEN [pending |-> r.pending, resolved |-> found, http |-> 200]
                 ELSE [pending |-> r.pending, resolved |-> <<>>, http |-> 500]

\* a client request about `target`, a signal it saw in GET /pending-signals;
\* the path parameter signal_id is the signal's symbol
Request(kind, target, answer) ==
    [kind |-> kind, target |-> target,
     was_pending |-> \E i \in 1..Len(pending_signals) : pending_signals[i] = target,
     resolved |-> answer.resolved, http |-> answer.http]

\* the order the scheduler places for a confirmed signal
ConfirmedOrders(resolved) ==
    [i \in 1..Len(resolved) |->
        [dispatch |-> "confirm", symbol |-> resolved[i].symbol,
         side |-> resolved[i].side, quantity |-> HeldQuantity(resolved[i])]]

\* the signals a client can ask about: one it saw pending (still pending or
\* resolved since), or one whose symbol matches nothing it could have seen
Askable(target) ==
    \/ \E i \in 1..Len(pending_signals) : pending_signals[i] = target
    \/ \E i \in 1..Len(requests) : requests[i].resolved = <<target>>
    \/ /\ \A i \in 1..Len(pending_signals) : pending_signals[i].symbol # target.symbol
       /\ \A i \in 1..Len(requests) :
             IF requests[i].resolved = <<>> THEN TRUE
             ELSE requests[i].resolved[1].symbol # target.symbol

\* POST /pending-signals/{signal_id}/confirm
ConfirmSignal(target) ==
    /\ Len(requests) < MaxRequests
    /\ Askable(target)
    /\ LET answer == RouteAnswer(pending_signals, target.symbol)
       IN  /\ pending_signals' = answer.pending
           /\ requests' = Append(requests, Request("confirm", target, answer))
           /\ orders' = orders \o ConfirmedOrders(answer.resolved)
    /\ UNCHANGED <<account, positions, dispatch, regVars, scanVars, libVars>>

\* POST /pending-signals/{signal_id}/reject
RejectSignal(target) ==
    /\ Len(requests) < MaxRequests
    /\ Askable(target)
    /\ LET answer == RouteAnswer(pending_signals, target.symbol)
       IN  /\ pending_signals' = answer.pending
           /\ requests' = Append(requests, Request("reject", target, answer))
    /\ UNCHANGED <<dispVars, regVars, scanVars, libVars>>

InitConfirm ==
    /\ strategies = <<>>
    /\ risk_managers = <<>>
    /\ api_raised = FALSE
    /\ api_log = <<>>
    /\ ScanIdle
    /\ LibIdle
    /\ DispatchIdle

NextConfirm ==
    \/ \E sg \in HeldSignals : HoldSignal(sg)
    \/ \E sg \in HeldSignals : ConfirmSignal(sg)
    \/ \E sg \in HeldSignals : RejectSignal(sg)

SpecConfirm == InitConfirm /\ [][NextConfirm]_vars

-----------------------------------------------------------------------------
(* Claims about the registry and the scan *)

RECURSIVE Flatten(_)
Flatten(qq) == IF qq = <<>> THEN <<>> ELSE Head(qq) \o Flatten(Tail(qq))

\* the active strategies a visited pair was evaluated against
ActiveSet(registry) ==
    {registry[i].value : i \in {j \in 1..Len(registry) : registry[j].value.is_active}}
Evaluated(entry) == ~entry.fetch.raised /\ entry.fetch.data.bars > 0

\* C7: within one scan every evaluated (symbol, timeframe) pair is evaluated
\* against the same set of active strategies, whatever add_strategy and
\* remove_strategy calls run while the scan waits for market data.
C7_ScanSeesOneRegistry ==
    \A i, j \in 1..Len(scan_log) :
        (Evaluated(scan_log[i]) /\ Evaluated(scan_log[j]))
            => ActiveSet(scan_log[i].registry) = ActiveSet(scan_log[j].registry)

\* the config of the most recent add_strategy(n) in the log
AddedIndices(n) == {i \in 1..Len(api_log) : api_log[i].op = "add" /\ api_log[i].name = n}
LastAddedConfig(n) ==
    api_log[CHOOSE i \in AddedIndices(n) : \A j \in AddedIndices(n) : j <= i].config

\* C8: after any sequence of add_strategy and remove_strategy calls the two
\* dicts have the same keys, and for each key both hold the config of the most
\* recent add_strategy for that name.
C8_RegistriesAgree ==
    /\ DictKeys(strategies) = DictKeys(risk_managers)
    /\ \A n \in DictKeys(strategies) \cup DictKeys(risk_managers) :
          /\ AddedIndices(n) # {}
          /\ DictHas(strategies, n) /\ DictGet(strategies, n) = LastAddedConfig(n)
          /\ DictHas(risk_managers, n) /\ DictGet(risk_managers, n) = LastAddedConfig(n)

\* a registered name whose entry was overwritten by a second add_strategy
C8_Witness ==
    \E n \in DictKeys(strategies) :
        /\ Cardinality(AddedIndices(n)) >= 2
        /\ \E i \in AddedIndices(n) : api_log[i].config # LastAddedConfig(n)

\* C9: remove_strategy never raises and leaves the name in neither dict; on
\* a name that is not registered (never added, or already removed) it leaves
\* both dicts unchanged, so a second remove_strategy(n) changes nothing.
RemoveCall(n) ==
    api_log' = Append(api_log, [op |-> "remove", name |-> n, config |-> NoConfig])
C9_RemoveIdempotent ==
    [][\A n \in Names :
          RemoveCall(n) =>
              /\ ~api_raised'
              /\ n \notin DictKeys(strategies') \cup DictKeys(risk_managers')
              /\ (n \notin DictKeys(strategies) \cup DictKeys(risk_managers))
                    => (strategies' = strategies /\ risk_managers' = risk_managers)
              /\ (api_log # <<>> /\ Last(api_log).op = "remove" /\ Last(api_log).name = n)
                    => (strategies' = strategies /\ risk_managers' = risk_managers)]_vars

\* remove_strategy(n) called twice in a row on a name that was registered
C9_Witness ==
    \E i \in 1..Len(api_log) :
        /\ i + 2 <= Len(api_log)
        /\ api_log[i].op = "add"
        /\ api_log[i + 1].op = "remove" /\ api_log[i + 1].name = api_log[i].name
        /\ api_log[i + 2].op = "remove" /\ api_log[i + 2].name = api_log[i].name

\* what the scan has to return for one visited pair: nothing when the fetch
\* raised or the frame is empty, else the signals of the active strategies
ExpectedOfPair(entry) ==
    IF ~Evaluated(entry) THEN <<>>
    ELSE LET active == SelectSeq(entry.registry, LAMBDA e : e.value.is_active)
         IN  Flatten([i \in 1..Len(active) |->
                 AnalyzeSymbol(active[i].value, entry.symbol, entry.fetch.data,
                               entry.timeframe)])

\* C10: the scan is never left through an exception; it visits every
\* (symbol, timeframe) pair of symbols x timeframes in order, and it returns
\* exactly the non-None signals of the strategies active when a pair with a
\* non-empty frame was evaluated; pairs whose fetch raised or came back empty
\* contribute nothing.
C10_ScanCompletesWithPartialResults ==
    /\ scan_pc # "aborted"
    /\ scan_pc = "done" =>
          /\ Len(scan_log) = NumPairs
          /\ \A i \in 1..NumPairs :
                /\ scan_log[i].symbol = PairSymbol(i)
                /\ scan_log[i].timeframe = PairTimeframe(i)
          /\ signals = Flatten([i \in 1..Len(scan_log) |-> ExpectedOfPair(scan_log[i])])

\* a finished scan whose first fetch raised, whose later pair produced a
\* signal, with an inactive strategy registered at that time
C10_Witness ==
    /\ scan_pc = "done"
    /\ \E i, j \in 1..Len(scan_log) :
          /\ i < j
          /\ scan_log[i].fetch.raised
          /\ ExpectedOfPair(scan_log[j]) # <<>>
          /\ \E k \in 1..Len(scan_log[j].registry) : ~scan_log[j].registry[k].value.is_active
    /\ signals # <<>>

-----------------------------------------------------------------------------
(* Claims about execute_signal *)

Started(d)  == dispatch[d].pc # "idle"
Returned(d) == dispatch[d].pc = "done"
CheckOf(d)  == dispatch[d].check[1]
HasCheck(d) == dispatch[d].check # <<>>

\* C1: in ALERT_ONLY mode execute_signal returns an alert at once, whatever
\* the signal, the registry and the account, and calls none of
\* get_account_info, get_positions, calculate_position_size,
\* check_risk_limits and place_order.
C1_AlertOnlyCallsNothing ==
    \A d \in Procs :
        (Started(d) /\ dispatch[d].automation_mode = "alert_only") =>
            /\ Returned(d)
            /\ dispatch[d].result.status = "alert"
            /\ dispatch[d].calls = NoCalls
            /\ ~HasCheck(d)

\* an alert returned for a signal whose strategy is not registered, and one
\* returned for a signal whose strategy is
C1_Witness ==
    /\ dispatch["d1"].result.status = "alert"
    /\ ~DictHas(risk_managers, dispatch["d1"].signal.strategy_name)
    /\ dispatch["d2"].result.status = "alert"
    /\ DictHas(risk_managers, dispatch["d2"].signal.strategy_name)

\* C2: in AUTO mode place_order is called only after check_risk_limits has
\* returned allowed in the same call of execute_signal; when
\* check_risk_limits refuses, execute_signal returns rejected with the
\* reason check_risk_limits gave and place_order is not called.
C2_AutoPlacesOnlyAfterAllowed ==
    \A d \in Procs :
        dispatch[d].automation_mode = "auto" =>
            /\ dispatch[d].calls.place_order > 0 =>
                  (HasCheck(d) /\ CheckOf(d).is_allowed)
            /\ (HasCheck(d) /\ ~CheckOf(d).is_allowed) =>
                  /\ Returned(d)
                  /\ dispatch[d].result = Result("rejected", CheckOf(d).reason, 0)
                  /\ dispatch[d].calls.place_order = 0

\* one AUTO call refused by the position limits, the other allowed and placed
C2_Witness ==
    /\ dispatch["d1"].automation_mode = "auto"
    /\ dispatch["d1"].result = Result("rejected", "Maximum positions limit reached", 0)
    /\ dispatch["d2"].automation_mode = "auto"
    /\ dispatch["d2"].result.status = "executed"

\* C3: in SEMI_AUTO mode execute_signal never calls place_order; when
\* check_risk_limits allows it returns pending_confirmation carrying the
\* quantity calculate_position_size computed (at least 1); when
\* check_risk_limits refuses it returns rejected with that reason.
C3_SemiAutoNeverPlaces ==
    \A d \in Procs :
        dispatch[d].automation_mode = "semi_auto" =>
            /\ dispatch[d].calls.place_order = 0
            /\ dispatch[d].pc # "place_order"
            /\ dispatch[d].result.status # "executed"
            /\ (HasCheck(d) /\ CheckOf(d).is_allowed) =>
                  /\ Returned(d)
                  /\ dispatch[d].result.status = "pending_confirmation"
                  /\ dispatch[d].result.quantity >= 1
                  /\ dispatch[d].result.quantity =
                        CalculatePositionSize(dispatch[d].risk_manager,
                                              dispatch[d].signal.price,
                                              dispatch[d].seen_equity)
            /\ (HasCheck(d) /\ ~CheckOf(d).is_allowed) =>
                  /\ Returned(d)
                  /\ dispatch[d].result = Result("rejected", CheckOf(d).reason, 0)

\* one SEMI_AUTO call pending with its quantity, the other refused because
\* the symbol is held
C3_Witness ==
    /\ dispatch["d1"].automation_mode = "semi_auto"
    /\ dispatch["d1"].result.status = "pending_confirmation"
    /\ dispatch["d1"].result.quantity = 2
    /\ dispatch["d2"].automation_mode = "semi_auto"
    /\ dispatch["d2"].result = Result("rejected", "Already holding position", 0)

\* C4: when place_order raises in an AUTO call, execute_signal returns an
\* error result, not executed, and place_order was called exactly once in
\* that call: there is no retry.
C4_PlaceOrderFailureIsError ==
    \A d \in Procs :
        dispatch[d].place_raised =>
            /\ Returned(d)
            /\ dispatch[d].automation_mode = "auto"
            /\ dispatch[d].result.status = "error"
            /\ dispatch[d].calls.place_order = 1
            /\ \A i \in 1..Len(orders) : orders[i].dispatch # d

\* a failed place_order beside a successful one
C4_Witness ==
    /\ dispatch["d1"].place_raised
    /\ dispatch["d1"].result.status = "error"
    /\ dispatch["d2"].result.status = "executed"

\* C6: an AUTO call places its order on the strength of the snapshots it
\* read itself (fewer than max_positions positions, the symbol not held for
\* a BUY, the order value within the buying power read), whatever the
\* account has become by the time the order is placed; so two calls that
\* both read their snapshots before either order lands both place an order.
C6_OrdersRestOnOwnSnapshot ==
    \A d \in Procs :
        dispatch[d].calls.place_order > 0 =>
            /\ Cardinality(dispatch[d].seen_positions) < dispatch[d].risk_manager.max_positions
            /\ ~(dispatch[d].signal.side = "BUY"
                    /\ dispatch[d].signal.symbol \in dispatch[d].seen_positions)
            /\ dispatch[d].quantity * dispatch[d].signal.price
                  <= dispatch[d].seen_buying_power

\* both calls read the same snapshot of max_positions - 1 positions, both
\* placed a BUY, and the account now holds more than max_positions positions
C6_Witness ==
    /\ \A d \in Procs :
          /\ dispatch[d].result.status = "executed"
          /\ dispatch[d].signal.side = "BUY"
          /\ Cardinality(dispatch[d].seen_positions) =
                dispatch[d].risk_manager.max_positions - 1
    /\ dispatch["d1"].seen_positions = dispatch["d2"].seen_positions
    /\ Len(orders) = 2
    /\ Cardinality(positions) > dispatch["d1"].risk_manager.max_positions

\* both calls read a buying power that covers one of the two orders only,
\* and both placed theirs
C6_WitnessBuyingPower ==
    /\ \A d \in Procs :
          /\ dispatch[d].result.status = "executed"
          /\ dispatch[d].seen_buying_power = 150
    /\ Len(orders) = 2
    /\ account.buying_power < 0

\* the orders placed by call d
OrdersOf(d) == {i \in 1..Len(orders) : orders[i].dispatch = d}
Sized(d) == dispatch[d].calls.position_size > 0
\* check_risk_limits returned with every lookup answered
LookupsSucceeded(d) == HasCheck(d) /\ ~dispatch[d].lookup_raised

\* C11: when calculate_position_size returns 0 in an AUTO or SEMI_AUTO call,
\* execute_signal treats the signal as dropped: its result is not an error,
\* it runs no risk check and places no order.
C11_ZeroSizeIsDropped ==
    \A d \in Procs :
        (Sized(d) /\ dispatch[d].quantity = 0) =>
            /\ dispatch[d].result.status # "error"
            /\ dispatch[d].calls.risk_check = 0
            /\ dispatch[d].calls.place_order = 0
            /\ OrdersOf(d) = {}

\* C12: check_risk_limits refuses whenever the positions it read number
\* max_positions or more, whatever the side, the symbol, the quantity, the
\* price and the buying power; execute_signal then returns rejected.
C12_RefusesAtMaximum ==
    \A d \in Procs :
        (LookupsSucceeded(d)
           /\ Cardinality(dispatch[d].seen_positions)
                 >= dispatch[d].risk_manager.max_positions) =>
            /\ CheckOf(d) = Refused("Maximum positions limit reached")
            /\ dispatch[d].result.status = "rejected"
            /\ dispatch[d].calls.place_order = 0

\* exactly max_positions positions; a SELL of a held symbol and a BUY of a
\* symbol not held, both affordable, both refused
C12_Witness ==
    /\ \A d \in Procs :
          /\ LookupsSucceeded(d)
          /\ Cardinality(dispatch[d].seen_positions) =
                dispatch[d].risk_manager.max_positions
          /\ CheckOf(d) = Refused("Maximum positions limit reached")
          /\ dispatch[d].quantity * dispatch[d].signal.price <= account.buying_power
    /\ dispatch["d1"].signal.side = "SELL"
    /\ dispatch["d1"].signal.symbol \in dispatch["d1"].seen_positions
    /\ dispatch["d2"].signal.side = "BUY"
    /\ dispatch["d2"].signal.symbol \notin dispatch["d2"].seen_positions

\* C13: when every lookup succeeds, check_risk_limits allows exactly when
\* the positions read are fewer than max_positions, the trade is not a BUY
\* of a held symbol, and quantity * price is at most the buying power read;
\* so a SELL of a held symbol passes the holding rule and an order worth
\* exactly the buying power is allowed.
C13_AllowedExactlyWhen ==
    \A d \in Procs :
        LookupsSucceeded(d) =>
            (CheckOf(d).is_allowed <=>
                /\ Cardinality(dispatch[d].seen_positions)
                      < dispatch[d].risk_manager.max_positions
                /\ ~(dispatch[d].signal.side = "BUY"
                       /\ dispatch[d].signal.symbol \in dispatch[d].seen_positions)
                /\ dispatch[d].quantity * dispatch[d].signal.price
                      <= dispatch[d].seen_buying_power)

\* a SELL of a held symbol allowed, and a BUY worth exactly the buying power
\* read allowed
C13_Witness ==
    /\ LookupsSucceeded("d1") /\ CheckOf("d1").is_allowed
    /\ dispatch["d1"].signal.side = "SELL"
    /\ dispatch["d1"].signal.symbol \in dispatch["d1"].seen_positions
    /\ LookupsSucceeded("d2") /\ CheckOf("d2").is_allowed
    /\ dispatch["d2"].signal.side = "BUY"
    /\ dispatch["d2"].quantity * dispatch["d2"].signal.price
          = dispatch["d2"].seen_buying_power

\* C14: when get_positions or get_account_info raises inside
\* check_risk_limits, check_risk_limits returns not allowed with a reason
\* instead of raising; execute_signal returns rejected with that reason and
\* an AUTO call places no order.
C14_LookupFailureRefuses ==
    \A d \in Procs :
        dispatch[d].lookup_raised =>
            /\ HasCheck(d) /\ ~CheckOf(d).is_allowed
            /\ Returned(d)
            /\ dispatch[d].result = Result("rejected", CheckOf(d).reason, 0)
            /\ dispatch[d].calls.place_order = 0
            /\ OrdersOf(d) = {}

\* get_positions raised in one AUTO call and get_account_info (inside
\* check_risk_limits) in the other
C14_Witness ==
    /\ \A d \in Procs :
          /\ dispatch[d].automation_mode = "auto"
          /\ dispatch[d].lookup_raised
          /\ dispatch[d].result.status = "rejected"
    /\ dispatch["d1"].calls.account_info = 1
    /\ dispatch["d2"].calls.account_info = 2

\* floor(a / b) for b # 0
FloorDiv(a, b) == IF b > 0 THEN a \div b ELSE (-a) \div (-b)

BetweenReads(d) == dispatch[d].pc \in {"get_positions", "buying_power"}

\* C24: within one AUTO or SEMI_AUTO call of execute_signal, the equity used
\* for sizing and the positions and buying power used by check_risk_limits
\* come from one snapshot: the account and the positions do not change
\* between the read used for sizing and the reads used for the limit checks.
C24_OneSnapshot ==
    [][\A d \in Procs :
          BetweenReads(d) => (account' = account /\ positions' = positions)]_vars

\* strategy n was registered and the latest call about it removed it
RemovedStrategy(n) ==
    LET calls == {i \in 1..Len(api_log) : api_log[i].name = n}
    IN  /\ \E i \in calls : api_log[i].op = "add"
        /\ \E i \in calls : /\ api_log[i].op = "remove"
                            /\ \A j \in calls : j <= i

\* C25: when the strategy that produced a signal has been removed from the
\* registry between the scan and the call of execute_signal for that
\* signal, an AUTO or SEMI_AUTO call returns an error without fetching the
\* account, without a risk check and without placing an order, and an
\* ALERT_ONLY call of the same signal still returns an alert.
C25_RemovedStrategyIsError ==
    [][\A d \in Procs :
          (/\ dispatch[d].pc = "idle"
           /\ dispatch'[d].pc # "idle"
           /\ RemovedStrategy(dispatch'[d].signal.strategy_name)) =>
              /\ dispatch'[d].pc = "done"
              /\ dispatch'[d].calls = NoCalls
              /\ dispatch'[d].check = <<>>
              /\ orders' = orders
              /\ dispatch'[d].result.status =
                    IF dispatch'[d].automation_mode = "alert_only"
                    THEN "alert" ELSE "error"]_vars

\* one signal of a finished scan whose strategy has since been removed,
\* dispatched in AUTO mode (error, nothing called) and in ALERT_ONLY mode
\* (alert)
C25_Witness ==
    /\ scan_pc = "done" /\ Len(signals) = 1
    /\ RemovedStrategy(signals[1].strategy_name)
    /\ \A d \in Procs : dispatch[d].signal = signals[1] /\ dispatch[d].pc = "done"
    /\ dispatch["d1"].automation_mode = "auto"
    /\ dispatch["d1"].result = Result("error", "Risk manager not found", 0)
    /\ dispatch["d1"].calls = NoCalls
    /\ dispatch["d2"].automation_mode = "alert_only"
    /\ dispatch["d2"].result.status = "alert"
    /\ orders = <<>>

-----------------------------------------------------------------------------
(* Claims about analyze_symbol *)

\* analyze_symbol has been called once on a fetched frame
Analyzed == Len(scan_log) = 1 /\ Evaluated(scan_log[1])
TheData  == scan_log[1].fetch.data
TheConfig == scan_log[1].registry[1].value
Emitted(side) == \E i \in 1..Len(signals) : signals[i].side = side
EnoughBars ==
    /\ TheData.bars >= TheConfig.stoch_k_period + 10
    /\ TheData.bars >= TheConfig.cci_period + 10
Below(x, t) == x # NaN /\ x[1] < t
Above(x, t) == x # NaN /\ x[1] > t

\* the volume confirmation: with a volume column, the latest volume is more
\* than 0.8 times the previous one; without one, it is satisfied
VolumeConfirmed ==
    TheData.has_volume =>
        /\ TheData.volume # NaN /\ TheData.prev_volume # NaN
        /\ 10 * TheData.volume[1] > 8 * TheData.prev_volume[1]

BuyCondition ==
    /\ Below(TheData.stoch_k, TheConfig.stoch_oversold)
    /\ Below(TheData.stoch_d, TheConfig.stoch_oversold)
    /\ TheData.stoch_k # NaN /\ TheData.stoch_d # NaN
    /\ TheData.stoch_k[1] > TheData.stoch_d[1]
    /\ Below(TheData.cci, TheConfig.cci_oversold)
    /\ Above(TheData.rsi, 25)
    /\ VolumeConfirmed

SellCondition ==
    /\ Above(TheData.stoch_k, TheConfig.stoch_overbought)
    /\ Above(TheData.stoch_d, TheConfig.stoch_overbought)
    /\ TheData.stoch_k # NaN /\ TheData.stoch_d # NaN
    /\ TheData.stoch_k[1] < TheData.stoch_d[1]
    /\ Above(TheData.cci, TheConfig.cci_overbought)
    /\ Below(TheData.rsi, 75)
    /\ VolumeConfirmed

\* C16: analyze_symbol returns None, without raising, whenever the frame has
\* fewer than max(stoch_k_period, cci_period) + 10 rows, whatever the rows
\* hold.
C16_TooFewBarsGivesNone ==
    (Analyzed /\ ~EnoughBars) => (signals = <<>> /\ scan_pc # "aborted")

\* 39 rows under a stochastic period of 30, on a frame that would give a BUY
\* with enough rows
C16_Witness ==
    /\ Analyzed /\ scan_pc = "done"
    /\ TheData.bars = 39 /\ TheConfig.stoch_k_period = 30
    /\ TheData.bars >= TheConfig.cci_period + 10
    /\ BuyCondition
    /\ signals = <<>>

\* C17: given enough rows, analyze_symbol returns a BUY signal (confidence
\* 0.7) exactly when, on the latest row, %K < stoch_oversold,
\* %D < stoch_oversold, %K > %D, CCI < cci_oversold, RSI > 25 and the volume
\* confirmation holds; if one of them fails (RSI = 20, say) there is no BUY.
C17_BuyExactlyWhen ==
    (Analyzed /\ EnoughBars) =>
        /\ Emitted("BUY") <=> BuyCondition
        /\ \A i \in 1..Len(signals) :
              signals[i].side = "BUY" => signals[i].confidence = 70

\* a BUY returned on a frame without a volume column
C17_Witness ==
    /\ Analyzed /\ EnoughBars /\ scan_pc = "done"
    /\ ~TheData.has_volume
    /\ Len(signals) = 1 /\ signals[1].side = "BUY" /\ signals[1].confidence = 70

\* RSI = 20 with every other condition holding: nothing returned
C17_WitnessRsiFloor ==
    /\ Analyzed /\ EnoughBars /\ scan_pc = "done"
    /\ TheData.rsi = Num(20)
    /\ Below(TheData.stoch_k, TheConfig.stoch_oversold)
    /\ Below(TheData.stoch_d, TheConfig.stoch_oversold)
    /\ TheData.stoch_k[1] > TheData.stoch_d[1]
    /\ Below(TheData.cci, TheConfig.cci_oversold)
    /\ VolumeConfirmed
    /\ signals = <<>>

\* C18: analyze_symbol returns at most one signal, the buy conditions being
\* tested first: a SELL signal exactly when the buy condition does not hold
\* and %K > stoch_overbought, %D > stoch_overbought, %K < %D,
\* CCI > cci_overbought, RSI < 75 and the volume confirmation holds; were
\* both conditions true, the result would be the BUY signal.
C18_SellExactlyWhenNoBuy ==
    (Analyzed /\ EnoughBars) =>
        /\ Len(signals) <= 1
        /\ Emitted("SELL") <=> (~BuyCondition /\ SellCondition)
        /\ (BuyCondition /\ SellCondition) => Emitted("BUY")

\* a SELL returned under thresholds set the wrong way round, on a row that
\* meets every buy test but %K > %D
C18_Witness ==
    /\ Analyzed /\ EnoughBars /\ scan_pc = "done"
    /\ TheConfig.stoch_oversold > TheConfig.stoch_overbought
    /\ Below(TheData.stoch_k, TheConfig.stoch_oversold)
    /\ Below(TheData.stoch_d, TheConfig.stoch_oversold)
    /\ Below(TheData.cci, TheConfig.cci_oversold)
    /\ Above(TheData.rsi, 25)
    /\ Len(signals) = 1 /\ signals[1].side = "SELL"

\* the scenario's configuration and its latest row, %K being k
ScenarioConfig ==
    /\ TheConfig.stoch_oversold = 20
    /\ TheConfig.cci_oversold = -100
    /\ TheConfig.stop_loss_percent = 2
Scenario(k) ==
    /\ Analyzed /\ EnoughBars /\ ScenarioConfig
    /\ TheData.stoch_k = Num(k) /\ TheData.stoch_d = Num(18)
    /\ TheData.cci = Num(-110) /\ TheData.rsi = Num(40)
    /\ TheData.has_volume
    /\ TheData.volume # NaN /\ TheData.prev_volume # NaN
    /\ TheData.volume[1] >= TheData.prev_volume[1]
\* one BUY signal, confidence 0.7, stop at price * 0.98, target at price * 1.04
\* (stop and target are kept in hundredths of the price unit)
ScenarioBuy ==
    /\ Len(signals) = 1
    /\ signals[1].side = "BUY"
    /\ signals[1].confidence = 70
    /\ signals[1].stop_loss = signals[1].price * 98
    /\ signals[1].take_profit = signals[1].price * 104

\* C19 as stated: with stoch_oversold = 20, cci_oversold = -100,
\* stop_loss_percent = 2 and a latest row with %K = 22 (up from 15) above
\* %D = 18, CCI = -110, RSI = 40 and non-decreasing volume, analyze_symbol
\* returns a BUY signal with confidence 0.7, stop_loss = price * 0.98 and
\* take_profit = price * 1.04.
C19_ScenarioGivesBuy ==
    Scenario(22) => ScenarioBuy

\* C19 as amended: in that scenario analyze_symbol returns None, %K = 22 not
\* being below stoch_oversold = 20; with %K = 19 instead (below 20, above
\* %D = 18) it returns the BUY signal with confidence 0.7,
\* stop_loss = price * 0.98 and take_profit = price * 1.04.
C19_ScenarioAmended ==
    /\ Scenario(22) => signals = <<>>
    /\ Scenario(19) => ScenarioBuy

\* the scenario with %K = 19, the BUY returned
C19_Witness ==
    Scenario(19) /\ scan_pc = "done" /\ ScenarioBuy /\ signals[1].price = 50

\* the scenario as stated, nothing returned
C19_WitnessAsStated ==
    Scenario(22) /\ scan_pc = "done" /\ signals = <<>>

\* C20: every signal analyze_symbol returns has the latest close for price
\* and, for a BUY, stop_loss = price * (1 - pct/100) and
\* take_profit = price * (1 + 2 * pct/100); for a SELL,
\* stop_loss = price * (1 + pct/100) and take_profit = price * (1 - 2 * pct/100),
\* pct being stop_loss_percent; so for a positive price and pct a BUY has
\* stop_loss < price < take_profit and a SELL take_profit < price < stop_loss.
\* (stop and target are kept in hundredths of the price unit)
C20_StopAndTarget ==
    Analyzed =>
        \A i \in 1..Len(signals) :
            LET sg    == signals[i]
                pct   == TheConfig.stop_loss_percent
                price == 100 * sg.price
            IN  /\ sg.price = TheData.close
                /\ sg.side = "BUY" =>
                      /\ sg.stop_loss = price - sg.price * pct
                      /\ sg.take_profit = price + 2 * sg.price * pct
                      /\ (sg.price > 0 /\ pct > 0) =>
                            (sg.stop_loss < price /\ price < sg.take_profit)
                /\ sg.side = "SELL" =>
                      /\ sg.stop_loss = price + sg.price * pct
                      /\ sg.take_profit = price - 2 * sg.price * pct
                      /\ (sg.price > 0 /\ pct > 0) =>
                            (sg.take_profit < price /\ price < sg.stop_loss)

\* a SELL with a stop of 5 percent: price 7, stop 7.35, target 6.30
C20_Witness ==
    /\ Analyzed /\ scan_pc = "done"
    /\ TheConfig.stop_loss_percent = 5
    /\ Len(signals) = 1 /\ signals[1].side = "SELL"
    /\ signals[1].price = 7
    /\ signals[1].stop_loss = 735 /\ signals[1].take_profit = 630

\* a BUY with a stop of 5 percent: price 50, stop 47.50, target 55.00
C20_WitnessBuy ==
    /\ Analyzed /\ scan_pc = "done"
    /\ TheConfig.stop_loss_percent = 5
    /\ Len(signals) = 1 /\ signals[1].side = "BUY"
    /\ signals[1].price = 50
    /\ signals[1].stop_loss = 4750 /\ signals[1].take_profit = 5500

\* an indicator cell of the latest row that the strategy reads is NaN
UndefinedCell ==
    \/ TheData.stoch_k = NaN
    \/ TheData.stoch_d = NaN
    \/ TheData.cci = NaN
    \/ TheData.rsi = NaN

\* C26: analyze_symbol never returns a signal computed from an undefined
\* indicator value: when %K, %D, CCI or RSI of the latest row is NaN it
\* returns None, and it does not raise.
C26_UndefinedGivesNone ==
    (Analyzed /\ UndefinedCell) => (signals = <<>> /\ scan_pc # "aborted")

\* enough rows, RSI NaN, and every other sell test met
C26_Witness ==
    /\ Analyzed /\ EnoughBars /\ scan_pc = "done"
    /\ TheData.rsi = NaN
    /\ Above(TheData.stoch_k, TheConfig.stoch_overbought)
    /\ Above(TheData.stoch_d, TheConfig.stoch_overbought)
    /\ TheData.stoch_k[1] < TheData.stoch_d[1]
    /\ Above(TheData.cci, TheConfig.cci_overbought)
    /\ VolumeConfirmed
    /\ signals = <<>>

-----------------------------------------------------------------------------
(* Claims about filter_signals_by_sentiment *)

\* the score the claim gives a symbol: its score, or 0 when the symbol or
\* its score is missing
ScoreOrZero(g, symbol) ==
    IF \E i \in 1..Len(g.sentiment_data) :
          /\ g.sentiment_data[i].key = symbol
          /\ \E j \in 1..Len(g.sentiment_data[i].value) :
                g.sentiment_data[i].value[j].key = "sentiment_score"
    THEN LET i == CHOOSE i \in 1..Len(g.sentiment_data) :
                     g.sentiment_data[i].key = symbol
             info == g.sentiment_data[i].value
             j == CHOOSE j \in 1..Len(info) : info[j].key = "sentiment_score"
         IN  info[j].value
    ELSE 0

\* positions of the signals the claim keeps
KeptPositions(g) ==
    {i \in 1..Len(g.signals) :
        ~(/\ g.signals[i].side = "BUY"
          /\ ScoreOrZero(g, g.signals[i].symbol) < g.min_sentiment_score)}

\* C21: filter_signals_by_sentiment returns the input signals in their
\* original order with exactly the BUY signals whose sentiment score is below
\* min_sentiment_score removed; a missing symbol or a missing score counts as
\* 0 (which passes the default -0.1); every SELL signal is kept; the inputs
\* are not modified.
C21_FilterDropsLowBuysOnly ==
    [][(gate.pc = "called" /\ gate'.pc = "returned") =>
          LET kept == KeptPositions(gate)
              out  == gate'.filtered_signals
          IN  /\ Len(out) = Cardinality(kept)
              /\ \A n \in 1..Len(out) :
                    out[n] = gate.signals[CHOOSE i \in kept :
                                 Cardinality({k \in kept : k <= i}) = n]
              /\ gate'.signals = gate.signals
              /\ gate'.sentiment_data = gate.sentiment_data
              /\ gate'.min_sentiment_score = gate.min_sentiment_score]_vars

\* default threshold: a BUY with score -0.5 is dropped, a BUY of a symbol
\* without an entry and a SELL with score -0.5 are kept, in order
C21_Witness ==
    /\ gate.pc = "returned"
    /\ gate.min_sentiment_score = DefaultMinSentimentScore
    /\ Len(gate.signals) = 3
    /\ gate.signals[1].side = "SELL" /\ gate.signals[1].symbol = "AAPL"
    /\ gate.signals[2].side = "BUY" /\ gate.signals[2].symbol = "AAPL"
    /\ gate.signals[3].side = "BUY" /\ gate.signals[3].symbol = "TSLA"
    /\ ScoreOrZero(gate, "AAPL") = -50
    /\ \A i \in 1..Len(gate.sentiment_data) : gate.sentiment_data[i].key # "TSLA"
    /\ gate.filtered_signals = <<gate.signals[1], gate.signals[3]>>

-----------------------------------------------------------------------------
(* Claims about the indicators *)

CalculatedAll  == calc.pc = "returned" /\ calc.op = "calculate_all_indicators"
MovingAveraged == calc.pc = "returned" /\ calc.op = "moving_average"

\* the periods an indicator column is computed with, its window first
PeriodsOf(c) ==
    CASE c = "stoch_k" -> <<"stoch_k_period", "stoch_d_period">>
      [] c = "stoch_d" -> <<"stoch_d_period", "stoch_k_period">>
      [] c = "cci"     -> <<"cci_period">>
      [] c = "rsi"     -> <<"rsi_period">>
      [] c \in {"sma", "ema"} -> <<"ma_period">>
      [] c \in {"bb_upper", "bb_middle", "bb_lower"} -> <<"bb_period">>
      [] c = "macd_signal" -> <<"macd_signal", "macd_fast", "macd_slow">>
      [] OTHER -> <<"macd_slow", "macd_fast", "macd_signal">>
WindowOf(c) == calc.params[PeriodsOf(c)[1]]
ValidPeriods == \A name \in PeriodNames : calc.params[name] >= 1
ExponentialColumns == {"ema", "macd", "macd_signal", "macd_histogram"}

\* as long as the input, and NaN on the first window-1 positions
AlignedUndefinedStart(series, df, window) ==
    /\ Len(series) = Len(df)
    /\ \A i \in 1..Len(series) : i < window => series[i] = NaN
\* as long as the input, and a number on every position
AlignedDefined(series, df) ==
    /\ Len(series) = Len(df)
    /\ \A i \in 1..Len(series) : series[i] # NaN

\* C22: for every rolling indicator (SMA, WMA, EMA, stochastic %K and %D,
\* CCI, RSI, Bollinger bands, MACD) and every input series, the output has
\* the length of the input and its first window-1 positions are undefined
\* (NaN, not zero).
C22_RollingOutputsAligned ==
    /\ (CalculatedAll /\ ValidPeriods) =>
          \A c \in IndicatorNames :
             AlignedUndefinedStart(calc.outputs[c], calc.df, WindowOf(c))
    /\ (MovingAveraged /\ calc.period >= 1 /\ calc.ma_type \in {"sma", "ema", "wma"}) =>
          AlignedUndefinedStart(calc.output, calc.df, calc.period)

\* C22 amended: with periods of at least 1, the outputs of SMA, WMA,
\* stochastic %K and %D, CCI, RSI and the Bollinger bands have the length of
\* the input and are NaN on their first window-1 positions; the outputs of
\* EMA and MACD have the length of the input and are numbers on every
\* position, the first window-1 included.
C22_WindowedOutputsAligned ==
    /\ (CalculatedAll /\ ValidPeriods) =>
          \A c \in IndicatorNames :
             IF c \in ExponentialColumns
             THEN AlignedDefined(calc.outputs[c], calc.df)
             ELSE AlignedUndefinedStart(calc.outputs[c], calc.df, WindowOf(c))
    /\ (MovingAveraged /\ calc.period >= 1) =>
          /\ calc.ma_type \in {"sma", "wma"} =>
                AlignedUndefinedStart(calc.output, calc.df, calc.period)
          /\ calc.ma_type = "ema" => AlignedDefined(calc.output, calc.df)

\* three bars, every period 3: SMA is NaN, NaN, number and EMA and MACD are
\* numbers from the first bar
C22_Witness ==
    /\ CalculatedAll /\ Len(calc.df) = 3
    /\ \A name \in PeriodNames : calc.params[name] = 3
    /\ calc.outputs.sma[1] = NaN /\ calc.outputs.sma[2] = NaN
    /\ calc.outputs.sma[3] # NaN
    /\ calc.outputs.ema[1] # NaN /\ calc.outputs.macd[1] # NaN

\* the columns of the indicators that are handed a period they raise on
FailedColumns ==
    {c \in IndicatorNames :
        \E k \in 1..Len(PeriodsOf(c)) : calc.params[PeriodsOf(c)[k]] < 1}
\* the same periods with the offending ones replaced by valid ones
RepairedParams ==
    [name \in DOMAIN calc.params |->
        IF name \in PeriodNames /\ calc.params[name] < 1 THEN 2 ELSE calc.params[name]]

\* C23: in calculate_all_indicators a failure of one indicator does not abort
\* the others: the failing indicator's columns are NaN on every bar, every
\* other column is what it is without the failure, and the augmented frame
\* is returned without raising.
C23_FailureLeavesOthers ==
    CalculatedAll =>
        /\ ~calc.raised
        /\ \A c \in IndicatorNames :
              /\ Len(calc.result[c]) = Len(calc.df)
              /\ IF c \in FailedColumns
                 THEN \A i \in 1..Len(calc.df) : calc.result[c][i] = NaN
                 ELSE calc.result[c] = IndicatorOutputs(calc.df, RepairedParams)[c]

\* three bars, RSI handed a period it raises on: its column is NaN
\* throughout and the SMA, EMA and stochastic columns have their numbers
C23_Witness ==
    /\ CalculatedAll /\ Len(calc.df) = 3
    /\ calc.params.rsi_period = -1
    /\ FailedColumns = {"rsi"}
    /\ \A i \in 1..3 : calc.result.rsi[i] = NaN
    /\ calc.result.sma[3] # NaN /\ calc.result.ema[1] # NaN
    /\ calc.result.stoch_k[3] # NaN /\ calc.result.macd[3] # NaN

-----------------------------------------------------------------------------
(* Claims about confirm and reject *)

\* C5: a confirm or reject request about a signal that is not pending when
\* the request is served (never held, or already confirmed or rejected) is
\* answered with an error, resolves no signal and places no order; so the
\* second of two confirms of one signal executes nothing.
C5_ResolvedSignalIsError ==
    \A i \in 1..Len(requests) :
        ~requests[i].was_pending =>
            (requests[i].http >= 400 /\ requests[i].resolved = <<>>)

=============================================================================
